---- MODULE Spec2Model ----
(***************************************************************************)
(* Control plane of the live pod migration controller: the                 *)
(* ContainerCheckpoint, PodCheckpoint and PodMigration reconcilers over an *)
(* object store, with the node agent seen through agent.Client.            *)
(*                                                                         *)
(* Every object kind is a function from the names that exist to the        *)
(* object's fields.  One action is one Reconcile call.  A reconcile may be *)
(* cut short by an object-store error (or a crash of the manager) at a     *)
(* Create or at the status Update: the handler then returns the error and  *)
(* nothing after that call happens; what it did before stays.              *)
(***************************************************************************)
EXTENDS Integers, Sequences, FiniteSets, TLC

\* ------------------------------------------------------------------ bounds
NumContainers == 2
\* reconciles that are cut short by a failing call after they changed something
MaxFaults == 1
\* deletions by the user
MaxDeletes == 1
\* the reconciles of one ContainerCheckpoint that can run at the same time
NumWorkers == 2
\* the seconds the agent's clock can advance
MaxClock == 1

\* --------------------------------------------------------------- constants
AllContainerNames == <<"a", "b", "c", "d">>
\* spec.containers of the source pod, in spec order
Containers == SubSeq(AllContainerNames, 1, NumContainers)
SourcePod == "p1"
SourceNode == "n1"
Nodes == {"n1", "n2"}
TargetNodes == {"n2", "", "ghost"}
MigrationNames == {"m1"}

NoOwner == [kind |-> "", name |-> ""]
Owner(kind, name) == [kind |-> kind, name |-> name]

\* an object-store fault injected into one reconcile
NoFault == [op |-> "none", k |-> 0]
\* the k-th status Update call of the handler fails (conflict, or the manager dies before it)
UpdateFault(k) == [op |-> "update", k |-> k]
\* the k-th Create call of the handler fails (or the manager dies before it)
CreateFault(k) == [op |-> "create", k |-> k]
\* r.Delete of the source pod fails
DeleteFault == [op |-> "delete", k |-> 1]
\* the handler's Get of the pod fails with an error other than NotFound
ReadFault == [op |-> "read", k |-> 1]
\* the calls that can fail in a reconcile of each kind
CCFaults == {NoFault, CreateFault(1), UpdateFault(1), ReadFault}
PCFaults == {NoFault, UpdateFault(1), UpdateFault(2)} \cup {CreateFault(k) : k \in 1..NumContainers}
MigFaults == {NoFault, CreateFault(1), UpdateFault(1), DeleteFault, ReadFault}

VARIABLES pods, migs, pcs, ccs, cccs, pccs, agentCalls, agentFailures, deleteLog,
          faults, deletes, last,
          rpcs,         \* the agent's Checkpoint handlers in progress, by calling checkpoint
          sharedStore,  \* the files of the shared mount
          clock,        \* the agent's wall clock, in seconds
          workers,      \* the reconciles of a ContainerCheckpoint in progress
          versions      \* the resourceVersion of each ContainerCheckpoint

objects == <<pods, migs, pcs, ccs, cccs, pccs>>
\* the state of the handlers that are followed call by call
inProgress == <<rpcs, sharedStore, clock, workers, versions>>
vars == <<pods, migs, pcs, ccs, cccs, pccs, agentCalls, agentFailures, deleteLog,
          faults, deletes, last, inProgress>>

Exists(store, n) == n \in DOMAIN store
Put(store, n, obj) == [x \in DOMAIN store \cup {n} |-> IF x = n THEN obj ELSE store[x]]
Remove(store, gone) == [x \in DOMAIN store \ gone |-> store[x]]
Empty == [x \in {} |-> 0]

\* strings.Contains
Contains(s, sub) ==
    \E i \in 1..(Len(s) + 1) :
        /\ i + Len(sub) - 1 <= Len(s)
        /\ SubSeq(s, i, i + Len(sub) - 1) = sub

\* strings.HasPrefix
HasPrefix(s, p) == Len(p) <= Len(s) /\ SubSeq(s, 1, Len(p)) = p

\* Reconcile's dispatch phase: an empty stored phase is handled as Pending
EffPhase(ph) == IF ph = "" THEN "Pending" ELSE ph

Terminal == {"Succeeded", "Failed"}

\* ------------------------------------------------------------- deterministic names
PodCheckpointName(m) == m
\* a child name that is generated anew on every pass, as metadata.generateName would
GeneratedCheckpointName(pc, container) ==
    pc \o "-" \o container \o "-" \o ToString(Cardinality(DOMAIN ccs))

ContainerCheckpointName(pc, container) == pc \o "-" \o container
ContainerContentName(cc) == cc
PodContentName(pc) == pc
\* a restored pod name built with another suffix
RestoredPodNameCopy(pod) == pod \o "-copy"

RestoredPodName(pod) == pod \o "-restored"

\* the artifact URI the agent returns for its k-th successful call for a checkpoint
ArtifactURI(podName, container, k) ==
    "shared://" \o podName \o "-" \o container \o "-" \o ToString(k) \o ".tar"

\* what the last step was: the kind of reconcile when it was one of an object in a
\* terminal phase
Other == "other"
Step(op, phase) == IF phase \in Terminal THEN op ELSE Other

\* a fault is counted when the reconcile it cut short had changed something
FaultBudget(f) ==
    /\ f # NoFault => faults < MaxFaults
    /\ faults' = IF f # NoFault /\ <<objects, agentCalls, agentFailures, deleteLog>>' # <<objects, agentCalls, agentFailures, deleteLog>>
                 THEN faults + 1 ELSE faults
    /\ UNCHANGED deletes

\* a reconcile that runs as one step
FaultCount(f) == FaultBudget(f) /\ UNCHANGED inProgress

\* a reconcile of a ContainerCheckpoint that is not running
IdleWorker == [pc |-> "idle", name |-> "", version |-> 0, uri |-> "", collided |-> FALSE]

Calls(n) == IF n \in DOMAIN agentCalls THEN agentCalls[n] ELSE 0

\* the agent calls for a checkpoint that returned an error
FailedCalls(n) == IF n \in DOMAIN agentFailures THEN agentFailures[n] ELSE 0

Init ==
    /\ \E ph \in {"Running", "Pending"} :
          pods = [p \in {SourcePod} |->
                    [phase |-> ph, nodeName |-> SourceNode,
                     containers |-> [i \in 1..NumContainers |->
                                       [name |-> Containers[i], image |-> "app",
                                        imagePullPolicy |-> "IfNotPresent"]],
                     restartPolicy |-> "Always",
                     owner |-> NoOwner]]
    /\ migs = Empty
    /\ pcs = Empty
    /\ ccs = Empty
    /\ cccs = Empty
    /\ pccs = Empty
    /\ agentCalls = Empty
    /\ agentFailures = Empty
    /\ deleteLog = {}
    /\ faults = 0
    /\ deletes = 0
    /\ last = Other
    /\ rpcs = Empty
    /\ sharedStore = Empty
    /\ clock = 0
    /\ workers = [w \in 1..NumWorkers |-> IdleWorker]
    /\ versions = Empty

\* ---------------------------------------------------------------- the user
\* kubectl apply of a PodMigration: creates it, or leaves the stored object alone
\* when the same manifest is applied again under the same name
ApplyMigration(m, target) ==
    /\ migs' = IF Exists(migs, m) THEN migs
               ELSE Put(migs, m, [podName |-> SourcePod, targetNode |-> target,
                                  phase |-> "", message |-> "",
                                  podCheckpointRef |-> "", restoredPodName |-> ""])
    /\ last' = Other
    /\ UNCHANGED <<pods, pcs, ccs, cccs, pccs, agentCalls, agentFailures, deleteLog, faults, deletes, inProgress>>

\* ============================================== ContainerCheckpoint reconciler
\* r.Status().Update of a ContainerCheckpoint
CC_StatusUpdate(n, obj, f) ==
    ccs' = IF f = UpdateFault(1) THEN ccs ELSE [ccs EXCEPT ![n] = obj]

\* updatePhase: phase and message, nothing else
CC_updatePhase(c, phase, message) == [c EXCEPT !.phase = phase, !.message = message]

CC_pendingStatus(c) ==
    IF ~Exists(pods, c.podName) THEN CC_updatePhase(c, "Failed", "pod not found")
    ELSE IF \A i \in DOMAIN pods[c.podName].containers :
                pods[c.podName].containers[i].name # c.containerName
         THEN CC_updatePhase(c, "Failed", "container not found in pod")
    ELSE IF pods[c.podName].phase # "Running"
         THEN CC_updatePhase(c, "Failed", "pod not running")
    ELSE [c EXCEPT !.phase = "Running", !.message = "checkpointing container"]

CC_handlePendingPhase(n, f) ==
    /\ CC_StatusUpdate(n, CC_pendingStatus(ccs[n]), f)
    /\ UNCHANGED <<pods, migs, pcs, cccs, pccs, agentCalls, agentFailures, deleteLog>>

\* binding written ahead of the phase change
CC_boundStillRunning(c, contentName) ==
    [c EXCEPT !.boundContentName = contentName, !.message = "done"]

\* binding that forgets to mark the checkpoint ready
CC_boundNotReady(c, contentName) ==
    [c EXCEPT !.boundContentName = contentName, !.phase = "Succeeded", !.message = "done"]

\* the status written when the checkpoint is bound to its content
CC_bound(c, contentName) ==
    [c EXCEPT !.boundContentName = contentName, !.ready = TRUE,
              !.phase = "Succeeded", !.message = "done"]

\* the already-bound shortcut at the top of the Running handler
CC_alreadyBound(c) ==
    [c EXCEPT !.ready = TRUE, !.phase = "Succeeded", !.message = "done"]

CC_failed(c, err) ==
    [c EXCEPT !.phase = "Failed", !.message = "checkpointing failed: " \o err,
              !.ready = FALSE]

\* a content that always names the first archive written for the checkpoint
NewContainerCheckpointContentFirstArchive(n, c, uri) ==
    [refName |-> n, podName |-> c.podName, containerName |-> c.containerName,
     artifactURI |-> ArtifactURI(c.podName, c.containerName, 1), owner |-> NoOwner]

\* the ContainerCheckpointContent the Running handler builds
NewContainerCheckpointContent(n, c, uri) ==
    [refName |-> n, podName |-> c.podName, containerName |-> c.containerName,
     artifactURI |-> uri, owner |-> NoOwner]

\* performContainerCheckpoint up to the agent call: "" when the agent is called
CC_performContainerCheckpoint(c) ==
    IF ~Exists(pods, c.podName) THEN "failed to get pod"
    ELSE IF pods[c.podName].nodeName = "" THEN "pod is not scheduled to any node"
    ELSE ""

\* the error agent.Client.CheckpointContainer returns.  Its three error returns (the
\* agent cannot be reached, the RPC fails, the response says success = false) reach
\* the reconciler through the same err != nil branch; the last one stands for them
AgentErrors == {"checkpoint failed"}
\* agentRes: "ok", or the error
AgentResults == {"ok"} \cup AgentErrors

\* a handler that rewrites the content it finds with the URI of the new archive
CC_contentOverwritten(contents, contentName, uri) ==
    [contents EXCEPT ![contentName].artifactURI = uri]

\* the "Content already exists" branch: the content found is only read
CC_contentExists(contents, contentName, uri) ==
    contents

\* handleCheckpointingPhase from the return of performContainerCheckpoint on: agentRes
\* is "ok" and uri the artifact URI, or agentRes is the error
CC_afterCheckpoint(n, agentRes, uri, f) ==
    LET c == ccs[n]
        contentName == ContainerContentName(n)
    IN
    IF agentRes # "ok"
    THEN /\ agentFailures' = Put(agentFailures, n, FailedCalls(n) + 1)
         /\ CC_StatusUpdate(n, CC_failed(c, agentRes), f)
         /\ UNCHANGED <<pods, migs, pcs, cccs, pccs, agentCalls, deleteLog>>
    ELSE \* the agent published an archive and returned its URI
         /\ agentCalls' = Put(agentCalls, n, Calls(n) + 1)
         /\ IF ~Exists(cccs, contentName)
            THEN IF f = CreateFault(1)
                 THEN UNCHANGED <<cccs, ccs>>
                 ELSE /\ cccs' = Put(cccs, contentName, NewContainerCheckpointContent(n, c, uri))
                      /\ CC_StatusUpdate(n, CC_bound(c, contentName), f)
            ELSE /\ cccs' = CC_contentExists(cccs, contentName, uri)
                 /\ CC_StatusUpdate(n, CC_bound(c, contentName), f)
         /\ UNCHANGED <<pods, migs, pcs, pccs, agentFailures, deleteLog>>

CC_handleCheckpointingPhase(n, agentRes, f) ==
    LET c == ccs[n]
        pre == IF f = ReadFault THEN "failed to get pod" ELSE CC_performContainerCheckpoint(c)
        uri == ArtifactURI(c.podName, c.containerName, Calls(n) + 1)
    IN
    IF c.boundContentName # ""
    THEN /\ CC_StatusUpdate(n, CC_alreadyBound(c), f)
         /\ UNCHANGED <<pods, migs, pcs, cccs, pccs, agentCalls, agentFailures, deleteLog>>
    ELSE IF pre # ""
    THEN /\ CC_StatusUpdate(n, CC_failed(c, pre), f)
         /\ UNCHANGED <<pods, migs, pcs, cccs, pccs, agentCalls, agentFailures, deleteLog>>
    ELSE CC_afterCheckpoint(n, agentRes, uri, f)

\* handleCompletedOrFailedPhase
CC_handleCompletedOrFailedPhase(n) == UNCHANGED <<pods, migs, pcs, ccs, cccs, pccs, agentCalls, agentFailures, deleteLog>>

CC_Reconcile(n, agentRes, f) ==
    /\ Exists(ccs, n)
    /\ last' = Step("reconcileCC", ccs[n].phase)
    /\ CASE EffPhase(ccs[n].phase) = "Pending" -> CC_handlePendingPhase(n, f)
         [] EffPhase(ccs[n].phase) = "Running" -> CC_handleCheckpointingPhase(n, agentRes, f)
         [] OTHER -> CC_handleCompletedOrFailedPhase(n)
    /\ FaultCount(f)

\* ================================================== PodCheckpoint reconciler
PC_StatusUpdate(n, obj, f) ==
    pcs' = IF f = UpdateFault(1) THEN pcs ELSE [pcs EXCEPT ![n] = obj]

PC_updatePhase(p, phase, message) == [p EXCEPT !.phase = phase, !.message = message]

\* the ContainerCheckpoint the Pending handler creates for one container
NewContainerCheckpoint(pcName, p, container) ==
    [podName |-> p.podName, containerName |-> container,
     label |-> pcName, owner |-> Owner("PodCheckpoint", pcName),
     phase |-> "", message |-> "", ready |-> FALSE, boundContentName |-> ""]

\* the loop over srcPod.Spec.Containers: Get each child by its name, Create it when
\* NotFound; a failing Create returns the error and leaves the earlier children
RECURSIVE EnsureChildren(_, _, _, _, _, _)
EnsureChildren(store, pcName, p, conts, created, f) ==
    IF conts = <<>> THEN [ccs |-> store, err |-> FALSE]
    ELSE LET name == ContainerCheckpointName(pcName, Head(conts).name) IN
         IF Exists(store, name)
         THEN EnsureChildren(store, pcName, p, Tail(conts), created, f)
         ELSE IF f = CreateFault(created + 1)
         THEN [ccs |-> store, err |-> TRUE]
         ELSE EnsureChildren(Put(store, name, NewContainerCheckpoint(pcName, p, Head(conts).name)),
                             pcName, p, Tail(conts), created + 1, f)

PC_handlePendingPhase(n, f) ==
    LET p == pcs[n] IN
    IF ~Exists(pods, p.podName)
    THEN /\ PC_StatusUpdate(n, PC_updatePhase(p, "Failed", "source pod not found"), f)
         /\ UNCHANGED <<pods, migs, ccs, cccs, pccs, agentCalls, agentFailures, deleteLog>>
    ELSE IF pods[p.podName].phase # "Running"
    THEN /\ PC_StatusUpdate(n, PC_updatePhase(p, "Failed", "source pod not running"), f)
         /\ UNCHANGED <<pods, migs, ccs, cccs, pccs, agentCalls, agentFailures, deleteLog>>
    ELSE LET r == EnsureChildren(ccs, n, p, pods[p.podName].containers, 0, f) IN
         /\ ccs' = r.ccs
         /\ IF r.err THEN UNCHANGED pcs
            ELSE PC_StatusUpdate(n, [p EXCEPT !.phase = "Running",
                                             !.message = "checkpointing containers"], f)
         /\ UNCHANGED <<pods, migs, cccs, pccs, agentCalls, agentFailures, deleteLog>>

\* r.List with MatchingLabels{"podcheckpoint": name}
Children(n) == {x \in DOMAIN ccs : ccs[x].label = n}

\* the orders in which a List may return a set of objects
Orders(S) == {s \in [1..Cardinality(S) -> S] : \A i, j \in DOMAIN s : i # j => s[i] # s[j]}

\* the switch without its default case: a child still Pending or Running is skipped
EvalChildNoDefault(acc, c) ==
    IF c.phase = "Succeeded"
    THEN IF c.boundContentName # ""
         THEN [acc EXCEPT !.names = Append(acc.names, c.boundContentName)]
         ELSE [acc EXCEPT !.allDone = FALSE]
    ELSE IF c.phase = "Failed"
    THEN [acc EXCEPT !.allDone = TRUE, !.allSucceeded = FALSE]
    ELSE acc

\* the switch with a Failed case that ends the wait and does not record the failure
EvalChildFailureDropped(acc, c) ==
    IF c.phase = "Succeeded"
    THEN IF c.boundContentName # ""
         THEN [acc EXCEPT !.names = Append(acc.names, c.boundContentName)]
         ELSE [acc EXCEPT !.allDone = FALSE]
    ELSE IF c.phase = "Failed"
    THEN [acc EXCEPT !.allDone = TRUE]
    ELSE [acc EXCEPT !.allDone = FALSE]

\* one iteration of the switch over a child's phase
EvalChild(acc, c) ==
    IF c.phase = "Succeeded"
    THEN IF c.boundContentName # ""
         THEN [acc EXCEPT !.names = Append(acc.names, c.boundContentName)]
         ELSE [acc EXCEPT !.allDone = FALSE]
    ELSE IF c.phase = "Failed"
    THEN [acc EXCEPT !.allDone = TRUE, !.allSucceeded = FALSE]
    ELSE [acc EXCEPT !.allDone = FALSE]

\* the loop over containerCheckpointList.Items
RECURSIVE EvalChildren(_, _)
EvalChildren(acc, items) ==
    IF items = <<>> THEN acc
    ELSE EvalChildren(EvalChild(acc, ccs[Head(items)]), Tail(items))

EvalStart == [allDone |-> TRUE, allSucceeded |-> TRUE, names |-> <<>>]

\* the PodCheckpointContent the Running handler builds
NewPodCheckpointContent(n, p, names) ==
    [refName |-> n, podName |-> p.podName, containerContents |-> names,
     ready |-> FALSE, owner |-> Owner("PodCheckpoint", n)]

PC_succeeded(p) ==
    [p EXCEPT !.phase = "Succeeded", !.message = "checkpoint complete", !.ready = TRUE]

PC_handleCheckpointingPhase(n, order, f) ==
    LET p == pcs[n]
        ev == EvalChildren(EvalStart, order)
        contentName == PodContentName(n)
    IN
    IF Children(n) = {} THEN PC_handlePendingPhase(n, f)
    ELSE IF ~ev.allDone THEN UNCHANGED <<pods, migs, pcs, ccs, cccs, pccs, agentCalls, agentFailures, deleteLog>>
    ELSE IF ~ev.allSucceeded
    THEN /\ PC_StatusUpdate(n, PC_updatePhase(p, "Failed",
                "one or more containers failed (see ContainerCheckpoint statuses)"), f)
         /\ UNCHANGED <<pods, migs, ccs, cccs, pccs, agentCalls, agentFailures, deleteLog>>
    ELSE IF p.boundContentName = ""
    THEN IF ~Exists(pccs, contentName)
         THEN /\ pccs' = IF f = CreateFault(1) THEN pccs
                         ELSE Put(pccs, contentName, NewPodCheckpointContent(n, p, ev.names))
              /\ UNCHANGED <<pods, migs, pcs, ccs, cccs, agentCalls, agentFailures, deleteLog>>
         ELSE /\ PC_StatusUpdate(n, [p EXCEPT !.boundContentName = contentName], f)
              /\ UNCHANGED <<pods, migs, ccs, cccs, pccs, agentCalls, agentFailures, deleteLog>>
    ELSE IF ~Exists(pccs, p.boundContentName)
    THEN UNCHANGED <<pods, migs, pcs, ccs, cccs, pccs, agentCalls, agentFailures, deleteLog>>
    ELSE \* mark the content ready when it is not, then mark the checkpoint complete
         LET contentUpdate == ~pccs[p.boundContentName].ready
             k == IF contentUpdate THEN 2 ELSE 1
         IN
         /\ pccs' = IF contentUpdate /\ f # UpdateFault(1)
                    THEN [pccs EXCEPT ![p.boundContentName].ready = TRUE]
                    ELSE pccs
         /\ pcs' = IF (contentUpdate /\ f = UpdateFault(1)) \/ f = UpdateFault(k)
                   THEN pcs
                   ELSE [pcs EXCEPT ![n] = PC_succeeded(p)]
         /\ UNCHANGED <<pods, migs, ccs, cccs, agentCalls, agentFailures, deleteLog>>

\* handleCompletedOrFailedPhase: logs only
PC_handleCompletedOrFailedPhase(n) == UNCHANGED <<pods, migs, pcs, ccs, cccs, pccs, agentCalls, agentFailures, deleteLog>>

PC_Reconcile(n, order, f) ==
    /\ Exists(pcs, n)
    /\ last' = Step("reconcilePC", pcs[n].phase)
    /\ CASE EffPhase(pcs[n].phase) = "Pending" -> PC_handlePendingPhase(n, f)
         [] EffPhase(pcs[n].phase) = "Running" -> PC_handleCheckpointingPhase(n, order, f)
         [] OTHER -> PC_handleCompletedOrFailedPhase(n)
    /\ FaultCount(f)

\* =================================================== PodMigration reconciler
Mig_StatusUpdate(n, obj, f) ==
    migs' = IF f = UpdateFault(1) THEN migs ELSE [migs EXCEPT ![n] = obj]

Mig_updatePhase(m, phase, message) == [m EXCEPT !.phase = phase, !.message = message]

\* the PodCheckpoint the migration creates
NewPodCheckpoint(n, m) ==
    [podName |-> m.podName, owner |-> Owner("PodMigration", n),
     phase |-> "", message |-> "", ready |-> FALSE, boundContentName |-> ""]

\* a validation that waits for a source pod that is not running yet
Mig_validateWaitsForPod(m) ==
    IF ~Exists(pods, m.podName) THEN "source pod not found"
    ELSE IF m.targetNode # "" /\ m.targetNode \notin Nodes THEN "target node not found"
    ELSE ""

\* a validation that looks the target node up even when none is named
Mig_validateAlwaysLooksUp(m) ==
    IF ~Exists(pods, m.podName) THEN "source pod not found"
    ELSE IF pods[m.podName].phase # "Running" THEN "source pod not running"
    ELSE IF m.targetNode \notin Nodes THEN "target node not found"
    ELSE ""

\* steps 1-3 of the Pending handler: "" when the migration is valid
Mig_validate(m) ==
    IF ~Exists(pods, m.podName) THEN "source pod not found"
    ELSE IF pods[m.podName].phase # "Running" THEN "source pod not running"
    ELSE IF m.targetNode # "" /\ m.targetNode \notin Nodes THEN "target node not found"
    ELSE ""

Mig_handlePendingPhase(n, f) ==
    LET m == migs[n]
        invalid == Mig_validate(m)
        checkpointName == PodCheckpointName(n)
    IN
    IF invalid # ""
    THEN /\ Mig_StatusUpdate(n, Mig_updatePhase(m, "Failed", invalid), f)
         /\ UNCHANGED <<pods, pcs, ccs, cccs, pccs, agentCalls, agentFailures, deleteLog>>
    ELSE IF ~Exists(pcs, checkpointName)
    THEN IF f = CreateFault(1)
         THEN UNCHANGED <<pods, migs, pcs, ccs, cccs, pccs, agentCalls, agentFailures, deleteLog>>
         ELSE /\ pcs' = Put(pcs, checkpointName, NewPodCheckpoint(n, m))
              /\ Mig_StatusUpdate(n, [m EXCEPT !.podCheckpointRef = checkpointName,
                                              !.phase = "Checkpointing",
                                              !.message = "checkpoint requested"], f)
              /\ UNCHANGED <<pods, ccs, cccs, pccs, agentCalls, agentFailures, deleteLog>>
    ELSE /\ Mig_StatusUpdate(n, [m EXCEPT
                !.podCheckpointRef = IF m.podCheckpointRef = "" THEN checkpointName
                                     ELSE m.podCheckpointRef,
                !.phase = "Checkpointing",
                !.message = "checkpoint in progress"], f)
         /\ UNCHANGED <<pods, pcs, ccs, cccs, pccs, agentCalls, agentFailures, deleteLog>>

\* a failed PodCheckpoint that is only reported in the message
Mig_checkpointFailedMessageOnly(m, p) ==
    [m EXCEPT !.message = "checkpoint failed: " \o p.message]

\* a failed PodCheckpoint whose message is copied as it is
Mig_checkpointFailedNoPrefix(m, p) == Mig_updatePhase(m, "Failed", p.message)

\* the status written when the PodCheckpoint is Failed
Mig_checkpointFailed(m, p) ==
    Mig_updatePhase(m, "Failed", "checkpoint failed: " \o p.message)

\* a completed checkpoint that sends the migration back to validation
Mig_checkpointCompleteRevalidate(m) ==
    [m EXCEPT !.phase = "Pending", !.message = "checkpoint complete"]

\* the status written when the PodCheckpoint is Succeeded and ready
Mig_checkpointComplete(m) ==
    [m EXCEPT !.phase = "CheckpointComplete", !.message = "checkpoint complete"]

Mig_handleCheckpointingPhase(n, f) ==
    LET m == migs[n]
        podCheckpointName == IF m.podCheckpointRef # "" THEN m.podCheckpointRef ELSE n
    IN
    IF ~Exists(pcs, podCheckpointName)
    THEN IF f = CreateFault(1)
         THEN UNCHANGED <<pods, migs, pcs, ccs, cccs, pccs, agentCalls, agentFailures, deleteLog>>
         ELSE /\ pcs' = Put(pcs, podCheckpointName, NewPodCheckpoint(n, m))
              /\ IF m.podCheckpointRef = ""
                 THEN Mig_StatusUpdate(n, [m EXCEPT !.podCheckpointRef = podCheckpointName], f)
                 ELSE UNCHANGED migs
              /\ UNCHANGED <<pods, ccs, cccs, pccs, agentCalls, agentFailures, deleteLog>>
    ELSE IF pcs[podCheckpointName].phase = "Failed"
    THEN /\ Mig_StatusUpdate(n, Mig_checkpointFailed(m, pcs[podCheckpointName]), f)
         /\ UNCHANGED <<pods, pcs, ccs, cccs, pccs, agentCalls, agentFailures, deleteLog>>
    ELSE IF pcs[podCheckpointName].phase = "Succeeded" /\ pcs[podCheckpointName].ready
    THEN /\ Mig_StatusUpdate(n, Mig_checkpointComplete(m), f)
         /\ UNCHANGED <<pods, pcs, ccs, cccs, pccs, agentCalls, agentFailures, deleteLog>>
    ELSE UNCHANGED <<pods, migs, pcs, ccs, cccs, pccs, agentCalls, agentFailures, deleteLog>>

\* getCheckpointContent: the bound PodCheckpointContent's name, or an error
Mig_getCheckpointContent(m) ==
    IF m.podCheckpointRef = ""
    THEN [err |-> "no checkpoint reference in migration status", name |-> ""]
    ELSE IF ~Exists(pcs, m.podCheckpointRef)
    THEN [err |-> "failed to get pod checkpoint", name |-> ""]
    ELSE IF pcs[m.podCheckpointRef].boundContentName = ""
    THEN [err |-> "checkpoint has no bound content", name |-> ""]
    ELSE IF ~Exists(pccs, pcs[m.podCheckpointRef].boundContentName)
    THEN [err |-> "failed to get checkpoint content", name |-> ""]
    ELSE [err |-> "", name |-> pcs[m.podCheckpointRef].boundContentName]

\* getCheckpointPathForContainer: the artifact of the first listed content that
\* exists and whose name contains the container's name; "" when there is none
RECURSIVE Mig_getCheckpointPathForContainer(_, _)
Mig_getCheckpointPathForContainer(contents, containerName) ==
    IF contents = <<>> THEN ""
    ELSE IF Exists(cccs, Head(contents)) /\ Contains(Head(contents), containerName)
    THEN cccs[Head(contents)].artifactURI
    ELSE Mig_getCheckpointPathForContainer(Tail(contents), containerName)

SharedMount == "/mnt/checkpoints"

\* the schemes createRestoredPod accepts
SupportedURI(uri) == HasPrefix(uri, "shared://") \/ HasPrefix(uri, "file://")

\* a conversion that passes every URI without a shared:// prefix through
CheckpointFilePathAnyScheme(uri) ==
    IF HasPrefix(uri, "shared://")
    THEN SharedMount \o "/" \o SubSeq(uri, Len("shared://") + 1, Len(uri))
    ELSE uri

\* filepath.Join(SharedMount, filename) for a filename without separators and dot
\* segments: an empty element is dropped, anything else is appended after a slash
JoinSharedMount(filename) ==
    IF filename = "" THEN SharedMount ELSE SharedMount \o "/" \o filename

\* the image of a restored container: "" for an unsupported URI
CheckpointFilePath(uri) ==
    IF HasPrefix(uri, "shared://")
    THEN JoinSharedMount(SubSeq(uri, Len("shared://") + 1, Len(uri)))
    ELSE IF HasPrefix(uri, "file://")
    THEN SubSeq(uri, Len("file://") + 1, Len(uri))
    ELSE ""

\* createRestoredPod: the pod manifest, or an error
Mig_createRestoredPod(n, m) ==
    LET content == Mig_getCheckpointContent(m)
        orig == pods[m.podName]
        paths == [i \in DOMAIN orig.containers |->
                    Mig_getCheckpointPathForContainer(pccs[content.name].containerContents,
                                               orig.containers[i].name)]
    IN
    IF ~Exists(pods, m.podName) THEN [err |-> "failed to get original pod"]
    ELSE IF content.err # "" THEN [err |-> "failed to get checkpoint content: " \o content.err]
    ELSE IF \E i \in DOMAIN paths : paths[i] = ""
    THEN [err |-> "no checkpoint found for container"]
    ELSE IF \E i \in DOMAIN paths : ~SupportedURI(paths[i])
    THEN [err |-> "unsupported checkpoint path format"]
    ELSE [err |-> "",
          name |-> RestoredPodName(m.podName),
          pod |-> [phase |-> "Pending", nodeName |-> m.targetNode,
                   containers |-> [i \in DOMAIN orig.containers |->
                                     [name |-> orig.containers[i].name,
                                      image |-> CheckpointFilePath(paths[i]),
                                      imagePullPolicy |-> "Never"]],
                   restartPolicy |-> "Never",
                   owner |-> Owner("PodMigration", n)]]

\* a move to Restoring that does not record the pod's name
Mig_restoringUnnamed(m, name) ==
    [m EXCEPT !.phase = "Restoring", !.message = "restored pod created"]

\* the status written once the restored pod is created or found
Mig_restoring(m, name) ==
    [m EXCEPT !.restoredPodName = name, !.phase = "Restoring",
              !.message = "restored pod created"]

\* a Create that also fails when the pod is already there
Mig_createFailsOnExisting(ps, name, f) == Exists(ps, name) \/ f = CreateFault(1)

\* r.Create returns an error other than AlreadyExists
Mig_createFails(ps, name, f) == ~Exists(ps, name) /\ f = CreateFault(1)

Mig_handleCheckpointCompletePhase(n, f) ==
    LET m == migs[n]
        r == IF f = ReadFault THEN [err |-> "failed to get original pod"]
             ELSE Mig_createRestoredPod(n, m)
    IN
    IF r.err # ""
    THEN /\ Mig_StatusUpdate(n, Mig_updatePhase(m, "Failed",
                                "failed to create restored pod: " \o r.err), f)
         /\ UNCHANGED <<pods, pcs, ccs, cccs, pccs, agentCalls, agentFailures, deleteLog>>
    ELSE IF Mig_createFails(pods, r.name, f)
    THEN \* a Create error other than AlreadyExists
         /\ migs' = [migs EXCEPT ![n] = Mig_updatePhase(m, "Failed",
                                "failed to create restored pod: create failed")]
         /\ UNCHANGED <<pods, pcs, ccs, cccs, pccs, agentCalls, agentFailures, deleteLog>>
    ELSE /\ pods' = IF Exists(pods, r.name) THEN pods ELSE Put(pods, r.name, r.pod)
         /\ Mig_StatusUpdate(n, Mig_restoring(m, r.name), f)
         /\ UNCHANGED <<pcs, ccs, cccs, pccs, agentCalls, agentFailures, deleteLog>>

\* a deleteOriginalPod that returns without deleting
Mig_deleteOriginalPodSkipped(m, f) == pods

\* deleteOriginalPod: the pods after it
Mig_deleteOriginalPod(m, f) ==
    IF ~Exists(pods, m.podName) \/ f = DeleteFault THEN pods
    ELSE Remove(pods, {m.podName})

\* how deleteOriginalPod ended: the pod was already gone (nil), r.Delete failed
\* (the error is logged), or the pod was deleted
Mig_deleteOutcome(m, f) ==
    IF ~Exists(pods, m.podName) THEN "gone"
    ELSE IF f = DeleteFault THEN "failed"
    ELSE "deleted"

\* a Running branch that gives up when the source pod cannot be deleted
Mig_restoredUnlessDeleteFailed(m, outcome) ==
    IF outcome = "failed" THEN m
    ELSE Mig_updatePhase(m, "Succeeded", "pod successfully restored and running")

\* the status written when the restored pod is Running: the outcome of the delete
\* is logged and does not change it
Mig_restored(m, outcome) ==
    Mig_updatePhase(m, "Succeeded", "pod successfully restored and running")

\* a restored pod that counts as failed as soon as it is not Running
Mig_podFailedUnlessRunning(phase) == phase # "Running"

\* case corev1.PodFailed
Mig_podFailed(phase) == phase = "Failed"

Mig_handleRestoringPhase(n, f) ==
    LET m == migs[n] IN
    IF m.restoredPodName = ""
    THEN /\ Mig_StatusUpdate(n, Mig_updatePhase(m, "Failed", "no restored pod name in status"), f)
         /\ UNCHANGED <<pods, pcs, ccs, cccs, pccs, agentCalls, agentFailures, deleteLog>>
    ELSE IF ~Exists(pods, m.restoredPodName)
    THEN /\ Mig_StatusUpdate(n, Mig_updatePhase(m, "Failed", "restored pod not found"), f)
         /\ UNCHANGED <<pods, pcs, ccs, cccs, pccs, agentCalls, agentFailures, deleteLog>>
    ELSE IF pods[m.restoredPodName].phase = "Running"
    THEN /\ pods' = Mig_deleteOriginalPod(m, f)
         /\ deleteLog' = deleteLog \cup {Mig_deleteOutcome(m, f)}
         /\ Mig_StatusUpdate(n, Mig_restored(m, Mig_deleteOutcome(m, f)), f)
         /\ UNCHANGED <<pcs, ccs, cccs, pccs, agentCalls, agentFailures>>
    ELSE IF Mig_podFailed(pods[m.restoredPodName].phase)
    THEN /\ Mig_StatusUpdate(n, Mig_updatePhase(m, "Failed", "restored pod failed to start"), f)
         /\ UNCHANGED <<pods, pcs, ccs, cccs, pccs, agentCalls, agentFailures, deleteLog>>
    ELSE UNCHANGED <<pods, migs, pcs, ccs, cccs, pccs, agentCalls, agentFailures, deleteLog>>

\* a terminal-phase handler that refreshes the status message
Mig_handleCompletedOrFailedTouch(n) ==
    /\ migs' = [migs EXCEPT ![n].message = "reconciled"]
    /\ UNCHANGED <<pods, pcs, ccs, cccs, pccs, agentCalls, agentFailures, deleteLog>>

\* handleCompletedOrFailedPhase
Mig_handleCompletedOrFailedPhase(n) == UNCHANGED <<pods, migs, pcs, ccs, cccs, pccs, agentCalls, agentFailures, deleteLog>>

Mig_Reconcile(n, f) ==
    /\ Exists(migs, n)
    /\ last' = Step("reconcileMigration", migs[n].phase)
    /\ CASE EffPhase(migs[n].phase) = "Pending" -> Mig_handlePendingPhase(n, f)
         [] migs[n].phase = "Checkpointing" -> Mig_handleCheckpointingPhase(n, f)
         [] migs[n].phase = "CheckpointComplete" -> Mig_handleCheckpointCompletePhase(n, f)
         [] migs[n].phase = "Restoring" -> Mig_handleRestoringPhase(n, f)
         [] OTHER -> Mig_handleCompletedOrFailedPhase(n)
    /\ FaultCount(f)

\* ============================================================ the cluster
\* the kubelet reports that a pending restored pod started or failed, or that a
\* running one (restartPolicy Never) failed
KubeletReports(p, ph) ==
    /\ Exists(pods, p)
    /\ pods[p].owner # NoOwner
    /\ \/ pods[p].phase = "Pending"
       \/ pods[p].phase = "Running" /\ ph = "Failed"
    /\ pods' = [pods EXCEPT ![p].phase = ph]
    /\ last' = Other
    /\ UNCHANGED <<migs, pcs, ccs, cccs, pccs, agentCalls, agentFailures, deleteLog, faults, deletes, inProgress>>

\* the source pod goes away (deleted, evicted)
SourcePodDisappears ==
    /\ Exists(pods, SourcePod)
    /\ pods' = Remove(pods, {SourcePod})
    /\ last' = Other
    /\ UNCHANGED <<migs, pcs, ccs, cccs, pccs, agentCalls, agentFailures, deleteLog, faults, deletes, inProgress>>

\* ------------------------------------------------------- cascading deletion
\* the objects of a store whose controller owner is of the kind and among the names
OwnedBy(store, kind, owners) ==
    {x \in DOMAIN store : store[x].owner.kind = kind /\ store[x].owner.name \in owners}

\* foreground deletion of the given migrations, pod checkpoints and container
\* checkpoints: every object goes with the objects that list it as owner
Cascade(ms, ps, cs) ==
    LET psAll == ps \cup OwnedBy(pcs, "PodMigration", ms)
        csAll == cs \cup OwnedBy(ccs, "PodCheckpoint", psAll)
    IN
    /\ migs' = Remove(migs, ms)
    /\ pcs' = Remove(pcs, psAll)
    /\ ccs' = Remove(ccs, csAll)
    /\ pccs' = Remove(pccs, OwnedBy(pccs, "PodCheckpoint", psAll))
    /\ cccs' = Remove(cccs, OwnedBy(cccs, "ContainerCheckpoint", csAll))
    /\ pods' = Remove(pods, OwnedBy(pods, "PodMigration", ms))
    /\ deletes < MaxDeletes
    /\ deletes' = deletes + 1
    /\ last' = Other
    /\ UNCHANGED <<agentCalls, agentFailures, deleteLog, faults, inProgress>>

DeleteMigration(n) == Exists(migs, n) /\ Cascade({n}, {}, {})
DeletePodCheckpoint(n) == Exists(pcs, n) /\ Cascade({}, {n}, {})
DeleteContainerCheckpoint(n) == Exists(ccs, n) /\ Cascade({}, {}, {n})

Next ==
    \/ \E m \in MigrationNames, t \in TargetNodes : ApplyMigration(m, t)
    \/ \E n \in DOMAIN ccs, r \in AgentResults, f \in CCFaults : CC_Reconcile(n, r, f)
    \/ \E n \in DOMAIN pcs, f \in PCFaults : \E order \in Orders(Children(n)) :
          PC_Reconcile(n, order, f)
    \/ \E n \in DOMAIN migs, f \in MigFaults : Mig_Reconcile(n, f)
    \/ \E p \in DOMAIN pods, ph \in {"Running", "Failed"} : KubeletReports(p, ph)
    \/ SourcePodDisappears

Spec == Init /\ [][Next]_vars

\* the reconcilers in a cluster whose user also deletes objects
NextDelete ==
    \/ Next
    \/ \E n \in DOMAIN migs : DeleteMigration(n)
    \/ \E n \in DOMAIN pcs : DeletePodCheckpoint(n)
    \/ \E n \in DOMAIN ccs : DeleteContainerCheckpoint(n)

SpecDelete == Init /\ [][NextDelete]_vars

\* ------------------------------------------------ checkpoints made by the user
StandaloneNames == {"x1"}
\* spec.containerName of a ContainerCheckpoint the user writes: a container of the
\* pod, or a name the pod does not have
StandaloneContainers == {Containers[1], "zz"}

\* kubectl apply of a ContainerCheckpoint that belongs to no PodCheckpoint
ApplyContainerCheckpoint(n, container) ==
    /\ ccs' = IF Exists(ccs, n) THEN ccs
              ELSE Put(ccs, n, [podName |-> SourcePod, containerName |-> container,
                                label |-> "", owner |-> NoOwner,
                                phase |-> "", message |-> "", ready |-> FALSE,
                                boundContentName |-> ""])
    /\ last' = Other
    /\ UNCHANGED <<pods, migs, pcs, cccs, pccs, agentCalls, agentFailures, deleteLog,
                   faults, deletes, inProgress>>

\* the source pod stops running (its containers exit, or it is evicted)
SourcePodStops ==
    /\ Exists(pods, SourcePod)
    /\ pods[SourcePod].phase = "Running"
    /\ pods' = [pods EXCEPT ![SourcePod].phase = "Failed"]
    /\ last' = Other
    /\ UNCHANGED <<migs, pcs, ccs, cccs, pccs, agentCalls, agentFailures, deleteLog,
                   faults, deletes, inProgress>>

\* the reconcilers in a cluster whose user also writes ContainerCheckpoints and whose
\* source pod may stop
NextUser ==
    \/ Next
    \/ \E n \in StandaloneNames, c \in StandaloneContainers : ApplyContainerCheckpoint(n, c)
    \/ SourcePodStops

SpecUser == Init /\ [][NextUser]_vars

\* the names a ContainerCheckpoint of a migration's pod checkpoint can have
ChildNames == {ContainerCheckpointName(PodCheckpointName(m), Containers[i]) :
                 m \in MigrationNames, i \in 1..NumContainers}

\* every object keeps being reconciled (requeue after an error, RequeueAfter while
\* waiting), and a reconcile is not cut short for ever
Fairness ==
    /\ \A n \in ChildNames :
          WF_vars(\E r \in AgentResults : CC_Reconcile(n, r, NoFault))
    /\ \A n \in MigrationNames :
          WF_vars(\E order \in Orders(Children(n)) : PC_Reconcile(n, order, NoFault))
    /\ \A n \in MigrationNames : WF_vars(Mig_Reconcile(n, NoFault))

FairSpec == Spec /\ Fairness

\* ------------------------------------------------------- the favourable cluster
\* the source pod is running and stays (nothing but the migration removes it), the
\* target node exists, every agent call succeeds, and the kubelet of the target node
\* starts the restored pod
InitHappy == Init /\ pods[SourcePod].phase = "Running"

NextHappy ==
    \/ \E m \in MigrationNames, t \in Nodes \ {SourceNode} : ApplyMigration(m, t)
    \/ \E n \in DOMAIN ccs, f \in CCFaults : CC_Reconcile(n, "ok", f)
    \/ \E n \in DOMAIN pcs, f \in PCFaults : \E order \in Orders(Children(n)) :
          PC_Reconcile(n, order, f)
    \/ \E n \in DOMAIN migs, f \in MigFaults : Mig_Reconcile(n, f)
    \/ \E p \in DOMAIN pods : KubeletReports(p, "Running")

HappySpec ==
    /\ InitHappy /\ [][NextHappy]_vars
    /\ \A n \in ChildNames : WF_vars(CC_Reconcile(n, "ok", NoFault))
    /\ \A n \in MigrationNames :
          WF_vars(\E order \in Orders(Children(n)) : PC_Reconcile(n, order, NoFault))
    /\ \A n \in MigrationNames : WF_vars(Mig_Reconcile(n, NoFault))
    /\ WF_vars(KubeletReports(RestoredPodName(SourcePod), "Running"))

\* ------------------------------------------ pods and migrations of other names
\* the names a pod's containers and a migration can have: short names, some of
\* which occur inside others
ContainerNameChoices == {"a", "b", "ab"}
NamedMigrations == {"m1", "ma"}

\* the sequences of NumContainers distinct container names
ContainerNameSeqs ==
    {s \in [1..NumContainers -> ContainerNameChoices] :
        \A i, j \in 1..NumContainers : i # j => s[i] # s[j]}

\* a running source pod with any of the container name sequences
InitNamed ==
    /\ \E names \in ContainerNameSeqs :
          pods = [p \in {SourcePod} |->
                    [phase |-> "Running", nodeName |-> SourceNode,
                     containers |-> [i \in 1..NumContainers |->
                                       [name |-> names[i], image |-> "app",
                                        imagePullPolicy |-> "IfNotPresent"]],
                     restartPolicy |-> "Always",
                     owner |-> NoOwner]]
    /\ migs = Empty
    /\ pcs = Empty
    /\ ccs = Empty
    /\ cccs = Empty
    /\ pccs = Empty
    /\ agentCalls = Empty
    /\ agentFailures = Empty
    /\ deleteLog = {}
    /\ faults = 0
    /\ deletes = 0
    /\ last = Other
    /\ rpcs = Empty
    /\ sharedStore = Empty
    /\ clock = 0
    /\ workers = [w \in 1..NumWorkers |-> IdleWorker]
    /\ versions = Empty

\* one migration of the pod, every call succeeding
NextNamed ==
    \/ \E m \in NamedMigrations, t \in Nodes \ {SourceNode} :
          migs = Empty /\ ApplyMigration(m, t)
    \/ \E n \in DOMAIN ccs : CC_Reconcile(n, "ok", NoFault)
    \/ \E n \in DOMAIN pcs : \E order \in Orders(Children(n)) : PC_Reconcile(n, order, NoFault)
    \/ \E n \in DOMAIN migs : Mig_Reconcile(n, NoFault)
    \/ \E p \in DOMAIN pods : KubeletReports(p, "Running")

SpecNamed == InitNamed /\ [][NextNamed]_vars

\* ------------------------------- a cluster that holds objects of the same names
\* Objects that are in the cluster before the migration is reconciled: a
\* ContainerCheckpointContent, a PodCheckpoint and a pod whose names are the ones the
\* reconcilers compute, left there by the user or by checkpoints of another namespace
\* (contents are cluster-scoped and are looked up by name alone).
OtherPod == "p2"
ExistingMigrations == {"m1", "m2"}
ExistingURIs == {"shared://p2-a-0.tar", "file://" \o "/var/lib/kubelet/checkpoints/c1.tar",
                 "oci://registry/a"}

ExistingContentName == ContainerContentName(ContainerCheckpointName(PodCheckpointName("m1"),
                                                                    Containers[1]))
ExistingContents ==
    {Empty} \cup
    {[k \in {ExistingContentName} |->
        [refName |-> ExistingContentName, podName |-> OtherPod,
         containerName |-> Containers[1], artifactURI |-> uri, owner |-> NoOwner]] :
       uri \in ExistingURIs}

ExistingPodCheckpoints ==
    {Empty} \cup
    {[k \in {PodCheckpointName("m1")} |->
        [podName |-> p, owner |-> NoOwner, phase |-> "", message |-> "",
         ready |-> FALSE, boundContentName |-> ""]] : p \in {SourcePod, OtherPod}}

ExistingPods ==
    {Empty} \cup
    {[k \in {RestoredPodName(SourcePod)} |->
        [phase |-> "Running", nodeName |-> SourceNode,
         containers |-> <<[name |-> "web", image |-> "app",
                           imagePullPolicy |-> "IfNotPresent"]>>,
         restartPolicy |-> "Always", owner |-> NoOwner]]}

InitExisting ==
    /\ \E other \in ExistingPods :
          pods = [p \in {SourcePod} \cup DOMAIN other |->
                    IF p \in DOMAIN other THEN other[p]
                    ELSE [phase |-> "Running", nodeName |-> SourceNode,
                          containers |-> [i \in 1..NumContainers |->
                                            [name |-> Containers[i], image |-> "app",
                                             imagePullPolicy |-> "IfNotPresent"]],
                          restartPolicy |-> "Always",
                          owner |-> NoOwner]]
    /\ migs = Empty
    /\ pcs \in ExistingPodCheckpoints
    /\ ccs = Empty
    /\ cccs \in ExistingContents
    /\ pccs = Empty
    /\ agentCalls = Empty
    /\ agentFailures = Empty
    /\ deleteLog = {}
    /\ faults = 0
    /\ deletes = 0
    /\ last = Other
    /\ rpcs = Empty
    /\ sharedStore = Empty
    /\ clock = 0
    /\ workers = [w \in 1..NumWorkers |-> IdleWorker]
    /\ versions = Empty

NextExisting ==
    \/ \E m \in ExistingMigrations, t \in Nodes \ {SourceNode} : ApplyMigration(m, t)
    \/ \E n \in DOMAIN ccs : CC_Reconcile(n, "ok", NoFault)
    \/ \E n \in DOMAIN pcs : \E order \in Orders(Children(n)) : PC_Reconcile(n, order, NoFault)
    \/ \E n \in DOMAIN migs : Mig_Reconcile(n, NoFault)
    \/ \E p \in DOMAIN pods : KubeletReports(p, "Running")

SpecExisting == InitExisting /\ [][NextExisting]_vars

\* ====================================================== the checkpoint agent
checkpointDir == "/var/lib/kubelet/checkpoints"
checkpointBackoffSteps == 5
checkpointBackoffInitial == 2
checkpointBackoffFactor == 2

\* the archive paths the kubelet returns in "items"
Archives == <<checkpointDir \o "/c1.tar", checkpointDir \o "/c2.tar">>
ItemLists == {<<Archives[1]>>, <<Archives[2], Archives[1]>>}

\* lastErr of an attempt that did not yield an archive.  The condition function has
\* six such returns (the request cannot be built, the transport fails, the status is
\* not 2xx, the body cannot be read, the body cannot be parsed, items is empty); each
\* sets lastErr and returns (false, nil), and the first and the last stand for them
AttemptErrors == {"kubelet request failed", "no checkpoint files returned by kubelet"}

NoResponse == [success |-> FALSE, error |-> "", artifactURI |-> "", rpcError |-> FALSE]

\* a failure returned as a transport-level error of the RPC
FailureAsRpcError(msg) ==
    [success |-> FALSE, error |-> msg, artifactURI |-> "", rpcError |-> TRUE]

\* &pb.CheckpointResponse{Success: false, Error: msg}, nil
FailureResponse(msg) ==
    [success |-> FALSE, error |-> msg, artifactURI |-> "", rpcError |-> FALSE]

\* &pb.CheckpointResponse{Success: true, ArtifactUri: uri}, nil
SuccessResponse(uri) ==
    [success |-> TRUE, error |-> "", artifactURI |-> uri, rpcError |-> FALSE]

\* a fallback that names the last archive of the list
FallbackLastArchive(files) == SuccessResponse("file://" \o files[Len(files)])

\* the response when publication failed: the local path of the first archive
FallbackResponse(files) == SuccessResponse("file://" \o files[1])

\* time.Now().Format("20060102-150405"): one string per second
Timestamp(t) == "20250101-00000" \o ToString(t)

SharedFileName(podUID, container, t) ==
    podUID \o "-" \o container \o "-" \o Timestamp(t) \o ".tar"

\* a loop that gives up one attempt later
BackoffExhaustedLate(attempts) == attempts > checkpointBackoffSteps

\* wait.ExponentialBackoff: the loop ends after Steps attempts
BackoffExhausted(attempts) == attempts >= checkpointBackoffSteps

\* a delay that does not grow
BackoffDelayConstant(attempts) == checkpointBackoffInitial

RECURSIVE BackoffDelay(_)
\* the sleep after the attempts-th failed attempt: Duration, multiplied by Factor
\* at every Step()
BackoffDelay(attempts) ==
    IF attempts <= 1 THEN checkpointBackoffInitial
    ELSE checkpointBackoffFactor * BackoffDelay(attempts - 1)

NewRpc(c) ==
    [pc |-> "mkdir", podUID |-> c.podName, container |-> c.containerName,
     attempts |-> 0, delay |-> 0, lastErr |-> "", files |-> <<>>, filename |-> "",
     failure |-> "", resp |-> NoResponse]

RpcStep(n, r) ==
    /\ rpcs' = [rpcs EXCEPT ![n] = r]
    /\ last' = Other
    /\ UNCHANGED <<objects, agentCalls, agentFailures, deleteLog, faults, deletes,
                   clock, workers, versions>>

RpcFails(r, stage, response) ==
    [r EXCEPT !.pc = "done", !.failure = stage, !.resp = response]

\* the Running reconcile of checkpoint n reaches the agent call
StartRpc(n) ==
    /\ Exists(ccs, n) /\ ~Exists(rpcs, n)
    /\ ccs[n].phase = "Running" /\ ccs[n].boundContentName = ""
    /\ CC_performContainerCheckpoint(ccs[n]) = ""
    /\ rpcs' = Put(rpcs, n, NewRpc(ccs[n]))
    /\ last' = Other
    /\ UNCHANGED <<objects, agentCalls, agentFailures, deleteLog, faults, deletes,
                   sharedStore, clock, workers, versions>>

\* os.MkdirAll(checkpointDir)
Agent_MkdirAll(n, ok) ==
    /\ Exists(rpcs, n) /\ rpcs[n].pc = "mkdir"
    /\ RpcStep(n, IF ok THEN [rpcs[n] EXCEPT !.pc = "tls"]
                  ELSE RpcFails(rpcs[n], "mkdir",
                           FailureResponse("failed to create checkpoint directory")))
    /\ UNCHANGED sharedStore

\* makeTLSClient
Agent_makeTLSClient(n, ok) ==
    /\ Exists(rpcs, n) /\ rpcs[n].pc = "tls"
    /\ RpcStep(n, IF ok THEN [rpcs[n] EXCEPT !.pc = "post"]
                  ELSE RpcFails(rpcs[n], "tls",
                           FailureResponse("failed to create TLS client")))
    /\ UNCHANGED sharedStore

\* one call of the condition function of doCheckpointWithBackoff that fails, and the
\* sleep that follows it
Agent_AttemptFails(n, err) ==
    /\ Exists(rpcs, n) /\ rpcs[n].pc = "post"
    /\ LET r == [rpcs[n] EXCEPT !.attempts = @ + 1, !.lastErr = err]
       IN RpcStep(n, IF BackoffExhausted(r.attempts)
                     THEN RpcFails(r, "backoff",
                              FailureResponse("checkpoint failed: checkpoint failed after retries: "
                                              \o err))
                     ELSE \* time.Sleep(backoff.Step()), then the next attempt
                          [r EXCEPT !.delay = BackoffDelay(r.attempts)])
    /\ UNCHANGED sharedStore

\* one call of the condition function that parses a non-empty items list
Agent_AttemptSucceeds(n, items) ==
    /\ Exists(rpcs, n) /\ rpcs[n].pc = "post"
    /\ LET r == [rpcs[n] EXCEPT !.attempts = @ + 1, !.files = items]
       IN RpcStep(n, IF Len(items) = 0
                     THEN RpcFails(r, "nofiles", FailureResponse("no checkpoint files created"))
                     ELSE [r EXCEPT !.pc = "open"])
    /\ UNCHANGED sharedStore

\* copyToSharedStorage: the file name is fixed, the local archive is opened
Agent_Open(n, ok) ==
    /\ Exists(rpcs, n) /\ rpcs[n].pc = "open"
    /\ LET r == [rpcs[n] EXCEPT
                    !.filename = SharedFileName(rpcs[n].podUID, rpcs[n].container, clock)]
       IN RpcStep(n, IF ok THEN [r EXCEPT !.pc = "create"]
                     ELSE RpcFails(r, "publish", FallbackResponse(r.files)))
    /\ UNCHANGED sharedStore

\* os.Create(sharedPath): the file exists and is empty, whatever it held
Agent_Create(n, ok) ==
    /\ Exists(rpcs, n) /\ rpcs[n].pc = "create"
    /\ RpcStep(n, IF ok THEN [rpcs[n] EXCEPT !.pc = "copy"]
                  ELSE RpcFails(rpcs[n], "publish", FallbackResponse(rpcs[n].files)))
    /\ sharedStore' = IF ok THEN Put(sharedStore, rpcs[n].filename,
                                      [state |-> "partial", writer |-> n])
                      ELSE sharedStore

\* io.Copy: the file is whole when this handler is the only one that wrote to it
\* since it was created
Agent_Copy(n, ok) ==
    /\ Exists(rpcs, n) /\ rpcs[n].pc = "copy"
    /\ RpcStep(n, IF ok THEN [rpcs[n] EXCEPT !.pc = "sync"]
                  ELSE RpcFails(rpcs[n], "publish", FallbackResponse(rpcs[n].files)))
    /\ sharedStore' = IF ok /\ sharedStore[rpcs[n].filename].writer = n
                      THEN [sharedStore EXCEPT ![rpcs[n].filename].state = "copied"]
                      ELSE IF ok
                      THEN [sharedStore EXCEPT ![rpcs[n].filename].state = "partial"]
                      ELSE sharedStore

\* destFile.Sync(), and the response of Checkpoint
Agent_Sync(n, ok) ==
    /\ Exists(rpcs, n) /\ rpcs[n].pc = "sync"
    /\ RpcStep(n, IF ok THEN [rpcs[n] EXCEPT !.pc = "done",
                                  !.resp = SuccessResponse("shared://" \o rpcs[n].filename)]
                  ELSE RpcFails(rpcs[n], "publish", FallbackResponse(rpcs[n].files)))
    /\ sharedStore' = IF ok /\ sharedStore[rpcs[n].filename].state = "copied"
                         /\ sharedStore[rpcs[n].filename].writer = n
                      THEN [sharedStore EXCEPT ![rpcs[n].filename].state = "synced"]
                      ELSE sharedStore

\* a second passes
Tick ==
    /\ clock < MaxClock
    /\ clock' = clock + 1
    /\ last' = Other
    /\ UNCHANGED <<objects, agentCalls, agentFailures, deleteLog, faults, deletes,
                   rpcs, sharedStore, workers, versions>>

\* agent.Client.CheckpointContainer: the error it makes of a response, or "ok"
AgentResult(resp) ==
    IF resp.rpcError THEN "checkpoint RPC failed: " \o resp.error
    ELSE IF ~resp.success THEN "checkpoint failed: " \o resp.error
    ELSE "ok"

\* the agent call returns and the Running reconcile of checkpoint n goes on
FinishRpc(n, f) ==
    /\ Exists(rpcs, n) /\ rpcs[n].pc = "done"
    /\ Exists(ccs, n)
    /\ CC_afterCheckpoint(n, AgentResult(rpcs[n].resp), rpcs[n].resp.artifactURI, f)
    /\ rpcs' = Remove(rpcs, {n})
    /\ last' = Other
    /\ FaultBudget(f)
    /\ UNCHANGED <<sharedStore, clock, workers, versions>>

\* the ContainerCheckpoints written for the same container of the source pod
AgentCheckpoints == {"x1", "x2"}

NextAgent ==
    \/ \E n \in AgentCheckpoints : ApplyContainerCheckpoint(n, Containers[1])
    \/ \E n \in DOMAIN ccs :
          EffPhase(ccs[n].phase) # "Running" /\ CC_Reconcile(n, "ok", NoFault)
    \/ \E n \in DOMAIN ccs : StartRpc(n)
    \/ \E n \in DOMAIN rpcs, ok \in BOOLEAN : Agent_MkdirAll(n, ok)
    \/ \E n \in DOMAIN rpcs, ok \in BOOLEAN : Agent_makeTLSClient(n, ok)
    \/ \E n \in DOMAIN rpcs, err \in AttemptErrors : Agent_AttemptFails(n, err)
    \/ \E n \in DOMAIN rpcs, items \in ItemLists : Agent_AttemptSucceeds(n, items)
    \/ \E n \in DOMAIN rpcs, ok \in BOOLEAN : Agent_Open(n, ok)
    \/ \E n \in DOMAIN rpcs, ok \in BOOLEAN : Agent_Create(n, ok)
    \/ \E n \in DOMAIN rpcs, ok \in BOOLEAN : Agent_Copy(n, ok)
    \/ \E n \in DOMAIN rpcs, ok \in BOOLEAN : Agent_Sync(n, ok)
    \/ Tick
    \/ \E n \in DOMAIN rpcs : FinishRpc(n, NoFault)

SpecAgent == InitHappy /\ [][NextAgent]_vars

\* ============================ concurrent reconciles of one ContainerCheckpoint
\* Every call of a reconcile is a step: the Get of the checkpoint, the agent call, the
\* Get and the Create of the content, the status Update.  The object store refuses a
\* Create of a name that exists and an Update made from a stale resourceVersion.
RaceCheckpoints == {"x1"}

Version(n) == IF n \in DOMAIN versions THEN versions[n] ELSE 0

WorkerStep(w, r) ==
    /\ workers' = [workers EXCEPT ![w] = r]
    /\ last' = Other
    /\ UNCHANGED <<pods, migs, pcs, pccs, agentFailures, deleteLog, faults, deletes,
                   rpcs, sharedStore, clock>>

\* a reconcile that answers a lost Create by marking the checkpoint Failed
CC_failedOnCollision(c) == CC_failed(c, "already exists")

\* r.Create returned an error (AlreadyExists): the error is returned, nothing is written
CC_createRefused(c) == c

\* Reconcile: the Get of the checkpoint and the choice of the handler, up to the
\* handler's first call that can fail
Worker_Get(w, n) ==
    /\ workers[w].pc = "idle" /\ Exists(ccs, n)
    /\ LET c == ccs[n]
           r == [workers[w] EXCEPT !.name = n, !.version = Version(n)]
       IN WorkerStep(w,
             IF EffPhase(c.phase) = "Pending" THEN [r EXCEPT !.pc = "updatePending"]
             ELSE IF EffPhase(c.phase) # "Running" THEN workers[w]
             ELSE IF c.boundContentName # "" THEN [r EXCEPT !.pc = "updateBound"]
             ELSE IF CC_performContainerCheckpoint(c) # "" THEN [r EXCEPT !.pc = "updateFailed"]
             ELSE [r EXCEPT !.pc = "agent"])
    /\ UNCHANGED <<ccs, cccs, agentCalls, versions>>

\* performContainerCheckpoint: the agent publishes an archive and returns its URI
Worker_Agent(w) ==
    /\ workers[w].pc = "agent"
    /\ LET n == workers[w].name
       IN /\ agentCalls' = Put(agentCalls, n, Calls(n) + 1)
          /\ WorkerStep(w, [workers[w] EXCEPT !.pc = "getContent",
                               !.uri = ArtifactURI(ccs[n].podName, ccs[n].containerName,
                                                   Calls(n) + 1)])
    /\ UNCHANGED <<ccs, cccs, versions>>

\* r.Get of the content
Worker_GetContent(w) ==
    /\ workers[w].pc = "getContent"
    /\ WorkerStep(w, [workers[w] EXCEPT !.pc =
                         IF Exists(cccs, ContainerContentName(workers[w].name))
                         THEN "updateBind" ELSE "create"])
    /\ UNCHANGED <<ccs, cccs, agentCalls, versions>>

\* r.Create of the content
Worker_Create(w) ==
    /\ workers[w].pc = "create"
    /\ LET n == workers[w].name
           contentName == ContainerContentName(n)
       IN IF Exists(cccs, contentName)
          THEN /\ ccs' = [ccs EXCEPT ![n] = CC_createRefused(ccs[n])]
               /\ WorkerStep(w, [workers[w] EXCEPT !.pc = "idle", !.collided = TRUE])
               /\ UNCHANGED cccs
          ELSE /\ cccs' = Put(cccs, contentName,
                              NewContainerCheckpointContent(n, ccs[n], workers[w].uri))
               /\ WorkerStep(w, [workers[w] EXCEPT !.pc = "updateBind"])
               /\ UNCHANGED ccs
    /\ UNCHANGED <<agentCalls, versions>>

\* r.Status().Update: refused when the checkpoint was written since this reconcile
\* read it
Worker_Update(w) ==
    /\ workers[w].pc \in {"updatePending", "updateBound", "updateFailed", "updateBind"}
    /\ LET n == workers[w].name
           c == ccs[n]
           obj == CASE workers[w].pc = "updatePending" -> CC_pendingStatus(c)
                    [] workers[w].pc = "updateBound" -> CC_alreadyBound(c)
                    [] workers[w].pc = "updateFailed" ->
                          CC_failed(c, CC_performContainerCheckpoint(c))
                    [] OTHER -> CC_bound(c, ContainerContentName(n))
       IN IF Version(n) # workers[w].version
          THEN UNCHANGED <<ccs, versions>>
          ELSE /\ ccs' = [ccs EXCEPT ![n] = obj]
               /\ versions' = Put(versions, n, Version(n) + 1)
    /\ WorkerStep(w, [workers[w] EXCEPT !.pc = "idle"])
    /\ UNCHANGED <<cccs, agentCalls>>

Worker_Next(w) ==
    \/ \E n \in DOMAIN ccs : Worker_Get(w, n)
    \/ Worker_Agent(w)
    \/ Worker_GetContent(w)
    \/ Worker_Create(w)
    \/ Worker_Update(w)

NextRace ==
    \/ \E n \in RaceCheckpoints, i \in 1..NumContainers :
          ApplyContainerCheckpoint(n, Containers[i])
    \/ \E w \in 1..NumWorkers, n \in DOMAIN ccs : Worker_Get(w, n)
    \/ \E w \in 1..NumWorkers : Worker_Agent(w)
    \/ \E w \in 1..NumWorkers : Worker_GetContent(w)
    \/ \E w \in 1..NumWorkers : Worker_Create(w)
    \/ \E w \in 1..NumWorkers : Worker_Update(w)

SpecRace == InitHappy /\ [][NextRace]_vars

\* every reconcile that was started or can start goes on
FairRace == SpecRace /\ \A w \in 1..NumWorkers : WF_vars(Worker_Next(w))

\* ===================================================================== claims
PhaseEdges == {<<"Pending", "Running">>, <<"Pending", "Failed">>,
               <<"Running", "Succeeded">>, <<"Running", "Failed">>}

MigrationEdges == {<<"Pending", "Checkpointing">>, <<"Checkpointing", "CheckpointComplete">>,
                   <<"CheckpointComplete", "Restoring">>, <<"Restoring", "Succeeded">>,
                   <<"Pending", "Failed">>, <<"Checkpointing", "Failed">>,
                   <<"CheckpointComplete", "Failed">>, <<"Restoring", "Failed">>}

\* the phases of the objects of a store that exist before and after a step move
\* along the edges, or stay
MovesAlong(store, storeNext, edges) ==
    \A n \in DOMAIN store \cap DOMAIN storeNext :
        \/ storeNext[n].phase = store[n].phase
        \/ <<EffPhase(store[n].phase), storeNext[n].phase>> \in edges

\* C1: for every ContainerCheckpoint the agent's Checkpoint call returns success at
\* most once, over any sequence of reconciles
C1_AgentSucceedsAtMostOnce == \A n \in DOMAIN agentCalls : agentCalls[n] <= 1

\* C2: when a PodCheckpoint is Succeeded, it has exactly one child per container of
\* the pod, every child is Succeeded and bound to an existing content, and the
\* PodCheckpointContent of its name exists and lists exactly the children's contents
C2_SucceededPodCheckpointIsComplete ==
    \A n \in DOMAIN pcs : pcs[n].phase = "Succeeded" =>
        /\ \A i \in 1..NumContainers :
              Cardinality({k \in Children(n) : ccs[k].containerName = Containers[i]}) = 1
        /\ Cardinality(Children(n)) = NumContainers
        /\ \A k \in Children(n) :
              /\ ccs[k].phase = "Succeeded"
              /\ ccs[k].boundContentName # ""
              /\ Exists(cccs, ccs[k].boundContentName)
        /\ Exists(pccs, PodContentName(n))
        /\ LET listed == pccs[PodContentName(n)].containerContents IN
              /\ {listed[i] : i \in DOMAIN listed} = {ccs[k].boundContentName : k \in Children(n)}
              /\ Len(listed) = Cardinality(Children(n))

C2_Witness ==
    \E n \in DOMAIN pcs : pcs[n].phase = "Succeeded" /\ Cardinality(Children(n)) = NumContainers

\* C3: a PodCheckpoint leaves Running (to Succeeded or Failed) only when every listed
\* child ContainerCheckpoint is terminal, whatever the order of the list
C3_LeavesRunningOnlyWhenAllTerminal ==
    [][\A n \in DOMAIN pcs \cap DOMAIN pcs' :
          (pcs[n].phase = "Running" /\ pcs'[n].phase \in Terminal)
              => \A k \in Children(n) : ccs[k].phase \in Terminal]_vars

\* C4: a ContainerCheckpoint is ready exactly when it is Succeeded with a bound content
C4_ReadyIffSucceededAndBound ==
    \A n \in DOMAIN ccs :
        ccs[n].ready <=> (ccs[n].phase = "Succeeded" /\ ccs[n].boundContentName # "")

C4_Witness == \E n \in DOMAIN ccs : ccs[n].ready /\ ccs[n].phase = "Succeeded"

\* C5: a reconcile of a ContainerCheckpoint, PodCheckpoint or Migration whose stored
\* phase is Succeeded or Failed changes no object, creates and deletes none and
\* does not call the agent
C5_TerminalReconcileChangesNothing ==
    [][last' # Other => UNCHANGED <<objects, agentCalls, agentFailures, deleteLog>>]_vars

C5_Witness ==
    /\ last = "reconcileMigration"
    /\ \E n \in DOMAIN migs : migs[n].phase = "Succeeded"
    /\ \E n \in DOMAIN ccs : ccs[n].phase \in Terminal

\* C6: the stored phase of every object only moves along the edges of its phase
\* graph; no step writes an earlier phase or leaves a terminal phase
C6_PhasesMoveForward ==
    [][/\ MovesAlong(ccs, ccs', PhaseEdges)
       /\ MovesAlong(pcs, pcs', PhaseEdges)
       /\ MovesAlong(migs, migs', MigrationEdges)]_vars

C6_Witness ==
    /\ \E n \in DOMAIN migs : migs[n].phase = "Succeeded"
    /\ \E n \in DOMAIN pcs : pcs[n].phase = "Succeeded"

\* C7: every ContainerCheckpointContent has an existing ContainerCheckpoint of its
\* own name that its containerCheckpointRef names, also after cascading deletions
C7_ContentHasItsCheckpoint ==
    \A n \in DOMAIN cccs : cccs[n].refName = n /\ Exists(ccs, n)

\* C8: every created object lists its creator as owner, so that once a Migration is
\* deleted with its dependents no Checkpoint or Content object is left
C8_OwnersAndCascade ==
    /\ \A n \in DOMAIN pcs : pcs[n].owner.kind = "PodMigration"
    /\ \A n \in DOMAIN ccs : ccs[n].owner = Owner("PodCheckpoint", ccs[n].label)
    /\ \A n \in DOMAIN pccs : pccs[n].owner = Owner("PodCheckpoint", pccs[n].refName)
    /\ \A n \in DOMAIN cccs : cccs[n].owner = Owner("ContainerCheckpoint", cccs[n].refName)
    /\ \A p \in DOMAIN pods : p # SourcePod => pods[p].owner.kind = "PodMigration"
    /\ migs = Empty => (pcs = Empty /\ ccs = Empty /\ pccs = Empty /\ cccs = Empty)

\* C9: retried reconciles create no second PodCheckpoint, ContainerCheckpoint or
\* Content, and a Succeeded migration has the object graph its name and its pod's
\* containers determine
C9_CreationIsIdempotent ==
    /\ \A m \in DOMAIN migs :
          Cardinality({p \in DOMAIN pcs : pcs[p].owner = Owner("PodMigration", m)}) <= 1
    /\ \A p \in DOMAIN pcs : \A i \in 1..NumContainers :
          Cardinality({k \in Children(p) : ccs[k].containerName = Containers[i]}) <= 1
    /\ \A k \in DOMAIN ccs : Cardinality({x \in DOMAIN cccs : cccs[x].refName = k}) <= 1
    /\ \A p \in DOMAIN pcs : Cardinality({x \in DOMAIN pccs : pccs[x].refName = p}) <= 1
    /\ \A m \in DOMAIN migs : migs[m].phase = "Succeeded" =>
          LET names == {m \o "-" \o Containers[i] : i \in 1..NumContainers} IN
          /\ DOMAIN pcs = {m}
          /\ DOMAIN ccs = names
          /\ DOMAIN cccs = names
          /\ DOMAIN pccs = {m}
          /\ {pccs[m].containerContents[i] : i \in DOMAIN pccs[m].containerContents} = names

C9_Witness ==
    /\ faults > 0
    /\ \E m \in DOMAIN migs : migs[m].phase = "Succeeded"
    /\ \E n \in DOMAIN agentCalls : agentCalls[n] > 1

\* C10: once a child ContainerCheckpoint is Failed, its PodCheckpoint and the
\* Migration that owns it end Failed, and neither is ever Succeeded
C10_ChildFailurePropagates ==
    \A m \in MigrationNames :
        LET childFailed == /\ Exists(pcs, m)
                           /\ \E k \in Children(m) : ccs[k].phase = "Failed"
        IN
        /\ childFailed ~> (Exists(pcs, m) /\ pcs[m].phase = "Failed"
                           /\ Exists(migs, m) /\ migs[m].phase = "Failed")
        /\ [](childFailed => (pcs[m].phase # "Succeeded" /\ migs[m].phase # "Succeeded"))

C10_Witness ==
    \E m \in DOMAIN migs :
        /\ migs[m].phase = "Failed"
        /\ Exists(pcs, m) /\ pcs[m].phase = "Failed"
        /\ \E k \in Children(m) : ccs[k].phase = "Failed"
        /\ \E k \in Children(m) : ccs[k].phase = "Succeeded"

\* C11: no PodCheckpointContent exists for a PodCheckpoint that has a Failed child
\* ContainerCheckpoint
C11_NoContentWithFailedChild ==
    \A n \in DOMAIN pccs :
        \A k \in Children(pccs[n].refName) : ccs[k].phase # "Failed"

C11_Witness ==
    \E n \in DOMAIN pcs :
        /\ pcs[n].phase = "Failed"
        /\ \E k \in Children(n) : ccs[k].phase = "Failed"
        /\ \E k \in Children(n) : ccs[k].phase = "Succeeded"
        /\ ~Exists(pccs, PodContentName(n))

\* C12: after an agent call for a ContainerCheckpoint returned an error, the agent is
\* not called for it again, it has no content, and once its status is written it is
\* Failed and not ready with the error text in the message
C12_AgentFailureIsFinal ==
    \A n \in DOMAIN ccs : FailedCalls(n) > 0 =>
        /\ FailedCalls(n) + Calls(n) = 1
        /\ ~Exists(cccs, ContainerContentName(n))
        /\ ccs[n].phase \in {"Running", "Failed"}
        /\ ccs[n].phase = "Failed" =>
              /\ \E e \in AgentErrors : ccs[n].message = "checkpointing failed: " \o e
              /\ ~ccs[n].ready

\* C13: in every state where a Migration is Failed, the Migration reconciler has not
\* deleted the source pod
C13_FailedKeepsSourcePod ==
    \A m \in DOMAIN migs : migs[m].phase = "Failed" => "deleted" \notin deleteLog

C15_RunningRestoredPodSucceeds ==
    [][\A m \in DOMAIN migs : \A f \in {NoFault, DeleteFault} :
          (/\ migs[m].phase = "Restoring"
           /\ Exists(pods, migs[m].restoredPodName)
           /\ pods[migs[m].restoredPodName].phase = "Running"
           /\ Mig_Reconcile(m, f))
          => /\ migs'[m].phase = "Succeeded"
             /\ deleteLog' = deleteLog \cup {Mig_deleteOutcome(migs[m], f)}]_vars

C15_Witness ==
    \E m \in DOMAIN migs :
        /\ migs[m].phase = "Succeeded"
        /\ Exists(pods, migs[m].podName)
        /\ "failed" \in deleteLog

\* the validation error of a Pending Migration, PodCheckpoint and ContainerCheckpoint:
\* "" when there is none
MigrationInvalid(m) ==
    IF ~Exists(pods, m.podName) THEN "source pod not found"
    ELSE IF pods[m.podName].phase # "Running" THEN "source pod not running"
    ELSE IF m.targetNode # "" /\ m.targetNode \notin Nodes THEN "target node not found"
    ELSE ""

PodCheckpointInvalid(p) ==
    IF ~Exists(pods, p.podName) THEN "source pod not found"
    ELSE IF pods[p.podName].phase # "Running" THEN "source pod not running"
    ELSE ""

ContainerCheckpointInvalid(c) ==
    IF ~Exists(pods, c.podName) THEN "pod not found"
    ELSE IF c.containerName \notin {pods[c.podName].containers[i].name :
                                       i \in DOMAIN pods[c.podName].containers}
    THEN "container not found in pod"
    ELSE IF pods[c.podName].phase # "Running" THEN "pod not running"
    ELSE ""

\* the step fails the object of the store with the message and changes nothing else
FailsWith(store, storeNext, n, message) ==
    /\ storeNext = [store EXCEPT ![n].phase = "Failed", ![n].message = message]
    /\ DOMAIN pods' = DOMAIN pods
    /\ DOMAIN pcs' = DOMAIN pcs /\ DOMAIN ccs' = DOMAIN ccs
    /\ DOMAIN cccs' = DOMAIN cccs /\ DOMAIN pccs' = DOMAIN pccs
    /\ UNCHANGED <<agentCalls, agentFailures>>

\* C16: a reconcile of a Pending Migration, PodCheckpoint or ContainerCheckpoint that
\* finds a validation error writes phase Failed with the message of that error,
\* creates no object and makes no agent call
C16_ValidationErrorFails ==
    [][/\ \A n \in DOMAIN migs :
             (/\ EffPhase(migs[n].phase) = "Pending"
              /\ MigrationInvalid(migs[n]) # ""
              /\ Mig_Reconcile(n, NoFault))
             => FailsWith(migs, migs', n, MigrationInvalid(migs[n]))
       /\ \A n \in DOMAIN pcs :
             (/\ EffPhase(pcs[n].phase) = "Pending"
              /\ PodCheckpointInvalid(pcs[n]) # ""
              /\ \E order \in Orders(Children(n)) : PC_Reconcile(n, order, NoFault))
             => FailsWith(pcs, pcs', n, PodCheckpointInvalid(pcs[n]))
       /\ \A n \in DOMAIN ccs :
             (/\ EffPhase(ccs[n].phase) = "Pending"
              /\ ContainerCheckpointInvalid(ccs[n]) # ""
              /\ \E r \in AgentResults : CC_Reconcile(n, r, NoFault))
             => FailsWith(ccs, ccs', n, ContainerCheckpointInvalid(ccs[n]))]_vars

C16_Witness ==
    /\ \E n \in DOMAIN ccs : ccs[n].phase = "Failed" /\ ccs[n].message = "container not found in pod"
    /\ \E n \in DOMAIN pcs : pcs[n].phase = "Failed" /\ pcs[n].message = "source pod not running"
    /\ \E n \in DOMAIN migs : migs[n].phase = "Failed"

\* C17 as stated: a Migration that is Checkpointing when its source pod is gone ends
\* Failed with the message "source pod not found"
C17_SourcePodNotFoundMessage ==
    [][\A m \in DOMAIN migs \cap DOMAIN migs' :
          (/\ migs[m].phase = "Checkpointing"
           /\ ~Exists(pods, migs[m].podName)
           /\ migs'[m].phase = "Failed")
          => migs'[m].message = "source pod not found"]_vars

\* C17 amended: a Migration that is Checkpointing when its source pod is gone ends
\* Failed; the message is "checkpoint failed: " and the PodCheckpoint's message, or
\* "failed to create restored pod: ..." when the checkpoint completed all the same
C17_SourcePodGoneFailsMigration ==
    /\ \A m \in MigrationNames :
          (/\ Exists(migs, m)
           /\ migs[m].phase = "Checkpointing"
           /\ ~Exists(pods, migs[m].podName))
          ~> (Exists(migs, m) /\ migs[m].phase = "Failed")
    /\ [][\A m \in DOMAIN migs \cap DOMAIN migs' :
             (/\ migs[m].phase \in {"Checkpointing", "CheckpointComplete"}
              /\ ~Exists(pods, migs[m].podName)
              /\ migs'[m].phase # migs[m].phase)
             => \/ /\ migs[m].phase = "Checkpointing"
                   /\ migs'[m].phase = "Failed"
                   /\ migs'[m].message = "checkpoint failed: " \o pcs[m].message
                \/ /\ migs[m].phase = "Checkpointing"
                   /\ migs'[m].phase = "CheckpointComplete"
                \/ /\ migs[m].phase = "CheckpointComplete"
                   /\ migs'[m].phase = "Failed"
                   /\ HasPrefix(migs'[m].message, "failed to create restored pod: ")]_vars

C17_Witness ==
    \E m \in DOMAIN migs :
        /\ ~Exists(pods, migs[m].podName)
        /\ migs[m].phase = "Failed"
        /\ migs[m].message = "checkpoint failed: source pod not found"

\* C18: a Migration without a target node is not failed for its target: its Pending
\* reconcile moves it to Checkpointing when the source pod is running, and its
\* restored pod is created with an empty nodeName
C18_EmptyTargetNodeAdvances ==
    /\ [](\A m \in DOMAIN migs : migs[m].targetNode = "" =>
              /\ migs[m].message # "target node not found"
              /\ Exists(pods, RestoredPodName(migs[m].podName))
                    => pods[RestoredPodName(migs[m].podName)].nodeName = "")
    /\ [][\A m \in DOMAIN migs :
             (/\ migs[m].targetNode = ""
              /\ EffPhase(migs[m].phase) = "Pending"
              /\ Exists(pods, migs[m].podName)
              /\ pods[migs[m].podName].phase = "Running"
              /\ Mig_Reconcile(m, NoFault))
             => migs'[m].phase = "Checkpointing"]_vars

C18_Witness ==
    \E m \in DOMAIN migs :
        /\ migs[m].targetNode = ""
        /\ migs[m].phase = "Succeeded"
        /\ Exists(pods, migs[m].restoredPodName)
        /\ pods[migs[m].restoredPodName].nodeName = ""
        /\ pods[migs[m].restoredPodName].phase = "Running"

\* C19: in the favourable cluster every Migration ends Succeeded, with its
\* PodCheckpoint Succeeded and a ready ContainerCheckpoint for every container
C19_HappyPathSucceeds ==
    \A m \in MigrationNames :
        Exists(migs, m) ~>
            /\ Exists(migs, m) /\ migs[m].phase = "Succeeded"
            /\ Exists(pcs, m) /\ pcs[m].phase = "Succeeded"
            /\ Cardinality(Children(m)) = NumContainers
            /\ \A k \in Children(m) : ccs[k].ready

C22_ContentIsImmutable ==
    [][/\ \A k \in DOMAIN cccs : k \in DOMAIN cccs' /\ cccs'[k] = cccs[k]
       /\ \A n \in DOMAIN ccs :
            (/\ ccs[n].phase = "Running"
             /\ Exists(cccs, ContainerContentName(n))
             /\ CC_Reconcile(n, "ok", NoFault)
             /\ CC_performContainerCheckpoint(ccs[n]) = "")
            => /\ ccs'[n].boundContentName = ContainerContentName(n)
               /\ cccs' = cccs]_vars

\* a checkpoint whose agent ran twice is bound to the content made after the first run
C22_Witness ==
    \E n \in DOMAIN ccs :
        /\ Calls(n) = 2
        /\ ccs[n].phase = "Succeeded"
        /\ Exists(cccs, ContainerContentName(n))
        /\ ccs[n].boundContentName = ContainerContentName(n)
        /\ cccs[ContainerContentName(n)].artifactURI
             = ArtifactURI(ccs[n].podName, ccs[n].containerName, 1)

\* C23: a PodCheckpointContent is ready exactly when its PodCheckpoint is Succeeded:
\* in every reachable state, for every content, status.ready = TRUE iff the
\* PodCheckpoint it was made for has phase Succeeded
C23_ContentReadyIffSucceeded ==
    \A k \in DOMAIN pccs :
        pccs[k].ready <=> (Exists(pcs, pccs[k].refName)
                           /\ pcs[pccs[k].refName].phase = "Succeeded")

HasSuffix(s, suffix) ==
    Len(s) >= Len(suffix) /\ SubSeq(s, Len(s) - Len(suffix) + 1, Len(s)) = suffix

\* the migration half of C24: a migration that fails in Checkpointing because its
\* PodCheckpoint is Failed gets a message that ends with the PodCheckpoint's message
C24_MigrationCarriesChildMessage ==
    [][\A n \in DOMAIN migs :
         (/\ migs[n].phase = "Checkpointing" /\ migs'[n].phase = "Failed"
          /\ Exists(pcs, PodCheckpointName(n))
          /\ pcs[PodCheckpointName(n)].phase = "Failed")
         => /\ pcs[PodCheckpointName(n)].message # ""
            /\ HasSuffix(migs'[n].message, pcs[PodCheckpointName(n)].message)]_vars

\* C24: whenever a parent is marked Failed because a child failed, the parent's
\* message is a prefix followed by the failed child's status.message: a PodCheckpoint
\* that goes from Running to Failed ends with the message of one of its Failed
\* ContainerCheckpoints, and a migration that fails in Checkpointing ends with the
\* message of its Failed PodCheckpoint
C24_ParentCarriesChildMessage ==
    /\ [][\A n \in DOMAIN pcs :
            (/\ pcs[n].phase = "Running" /\ pcs'[n].phase = "Failed"
             /\ \E k \in Children(n) : ccs[k].phase = "Failed")
            => \E k \in Children(n) :
                  /\ ccs[k].phase = "Failed"
                  /\ ccs[k].message # ""
                  /\ HasSuffix(pcs'[n].message, ccs[k].message)]_vars
    /\ C24_MigrationCarriesChildMessage

\* C25: a transient object-store error never moves an object to Failed.  A reconcile
\* in which a Get, Create, Update or Delete fails writes Failed only if the same
\* reconcile without the failure writes Failed too (the failing call was never
\* reached); otherwise the stored phase is the one it started from
C25_TransientErrorNeverFails ==
    [][/\ \A n \in DOMAIN migs : \A f \in MigFaults \ {NoFault} :
            (Mig_Reconcile(n, f) /\ migs[n].phase # "Failed" /\ migs'[n].phase = "Failed")
            => ENABLED (Mig_Reconcile(n, NoFault) /\ migs'[n].phase = "Failed")
       /\ \A n \in DOMAIN pcs : \A f \in PCFaults \ {NoFault} :
            \A order \in Orders(Children(n)) :
            (PC_Reconcile(n, order, f) /\ pcs[n].phase # "Failed" /\ pcs'[n].phase = "Failed")
            => ENABLED (PC_Reconcile(n, order, NoFault) /\ pcs'[n].phase = "Failed")
       /\ \A n \in DOMAIN ccs : \A f \in CCFaults \ {NoFault} : \A r \in AgentResults :
            (CC_Reconcile(n, r, f) /\ ccs[n].phase # "Failed" /\ ccs'[n].phase = "Failed")
            => ENABLED (CC_Reconcile(n, r, NoFault) /\ ccs'[n].phase = "Failed")]_vars

\* the contents a migration's bound PodCheckpointContent lists
BoundContents(n) ==
    LET content == Mig_getCheckpointContent(migs[n])
    IN IF content.err # "" THEN {}
       ELSE {pccs[content.name].containerContents[i] :
                i \in DOMAIN pccs[content.name].containerContents}

\* C30: every container of the restored pod gets as image the artifact of the
\* ContainerCheckpointContent whose spec.containerName is that container's name,
\* found through the migration's bound PodCheckpointContent, whatever the migration
\* and the containers are called
C30_RestoredImageIsOwnArtifact ==
    \A n \in DOMAIN migs :
        (migs[n].restoredPodName # "" /\ Exists(pods, migs[n].restoredPodName))
        => LET r == pods[migs[n].restoredPodName]
           IN \A i \in DOMAIN r.containers :
                \E k \in BoundContents(n) :
                    /\ Exists(cccs, k)
                    /\ cccs[k].containerName = r.containers[i].name
                    /\ r.containers[i].image = CheckpointFilePath(cccs[k].artifactURI)

\* the file a shared:// URI names
SharedFile(uri) == SubSeq(uri, Len("shared://") + 1, Len(uri))

\* C26: a ContainerCheckpointContent with artifactURI shared://<filename> exists only
\* while <filename> is in the shared store, wholly copied and synced: in no reachable
\* state does such a content name a file that is missing or partially written
C26_SharedContentIsPublished ==
    \A k \in DOMAIN cccs :
        HasPrefix(cccs[k].artifactURI, "shared://")
        => /\ Exists(sharedStore, SharedFile(cccs[k].artifactURI))
           /\ sharedStore[SharedFile(cccs[k].artifactURI)].state = "synced"

\* C27: every failure inside the Checkpoint handler is a response with success =
\* false and an error string, never an error of the RPC: a handler that ended after
\* the checkpoint directory, the TLS client or the host endpoint failed, or with no
\* archive, answers success = false, a non-empty error and no RPC error, which the
\* client turns into "checkpoint failed: <error>"
C27_FailureIsAResponse ==
    \A n \in DOMAIN rpcs :
        rpcs[n].pc = "done"
        => /\ ~rpcs[n].resp.rpcError
           /\ rpcs[n].failure \in {"mkdir", "tls", "backoff", "nofiles"}
              => /\ ~rpcs[n].resp.success
                 /\ rpcs[n].resp.error # ""
                 /\ rpcs[n].resp.artifactURI = ""
                 /\ AgentResult(rpcs[n].resp) = "checkpoint failed: " \o rpcs[n].resp.error

\* one handler failed at the checkpoint directory, another after its retries
C27_Witness ==
    \E n, k \in DOMAIN rpcs :
        /\ rpcs[n].pc = "done" /\ rpcs[n].failure = "mkdir"
        /\ rpcs[k].pc = "done" /\ rpcs[k].failure = "backoff"
        /\ rpcs[k].lastErr = "no checkpoint files returned by kubelet"

\* C28: one Checkpoint RPC makes at most checkpointBackoffSteps (5) attempts; a
\* failed attempt is followed by another one after a delay of 2, 4, 8, 16 seconds;
\* the first attempt with a non-empty items list ends the loop with these files; the
\* fifth failed attempt ends the RPC with a failure that carries the last error
C28_AtMostFiveAttempts ==
    /\ [](\A n \in DOMAIN rpcs :
            /\ rpcs[n].attempts <= 5
            /\ rpcs[n].pc = "post"
               => /\ rpcs[n].attempts < 5
                  /\ rpcs[n].files = <<>>
                  /\ rpcs[n].attempts >= 1 => rpcs[n].delay = 2 ^ rpcs[n].attempts
            /\ rpcs[n].failure = "backoff"
               => /\ rpcs[n].attempts = 5
                  /\ rpcs[n].pc = "done"
                  /\ ~rpcs[n].resp.success
                  /\ rpcs[n].lastErr \in AttemptErrors
                  /\ HasSuffix(rpcs[n].resp.error, rpcs[n].lastErr))
    /\ [][\A n \in DOMAIN rpcs \cap DOMAIN rpcs' :
            rpcs'[n].attempts # rpcs[n].attempts
            => /\ rpcs'[n].attempts = rpcs[n].attempts + 1
               /\ IF rpcs'[n].files # <<>> THEN rpcs'[n].pc = "open"
                  ELSE IF rpcs'[n].attempts < 5 THEN rpcs'[n].pc = "post"
                  ELSE rpcs'[n].pc = "done" /\ rpcs'[n].failure = "backoff"]_vars

\* one handler gave up after five attempts, the last sleep having been 16 seconds,
\* while another got its archive at the third attempt
C28_Witness ==
    \E n, k \in DOMAIN rpcs :
        /\ rpcs[n].failure = "backoff" /\ rpcs[n].attempts = 5 /\ rpcs[n].delay = 16
        /\ rpcs[k].attempts = 3 /\ rpcs[k].pc = "open" /\ rpcs[k].delay = 4

\* C29: the agent publishes the first archive the host returned.  A handler that got
\* archives always answers success: with shared://<podUID>-<container>-<timestamp>.tar
\* when open, create, copy and sync all succeeded, and with file://<first archive path>
\* when one of them failed
C29_PublishOrFallBack ==
    \A n \in DOMAIN rpcs :
        (rpcs[n].pc = "done" /\ rpcs[n].files # <<>> /\ Exists(ccs, n))
        => /\ rpcs[n].resp.success
           /\ rpcs[n].failure \in {"", "publish"}
           /\ rpcs[n].failure = ""
              => \E t \in 0..MaxClock :
                    rpcs[n].resp.artifactURI
                      = "shared://" \o ccs[n].podName \o "-" \o ccs[n].containerName
                          \o "-" \o Timestamp(t) \o ".tar"
           /\ rpcs[n].failure = "publish"
              => rpcs[n].resp.artifactURI = "file://" \o rpcs[n].files[1]

\* one handler published, another fell back, each having two archives to choose from
C29_Witness ==
    \E n, k \in DOMAIN rpcs :
        /\ rpcs[n].pc = "done" /\ rpcs[n].failure = "" /\ Len(rpcs[n].files) = 2
        /\ HasPrefix(rpcs[n].resp.artifactURI, "shared://")
        /\ sharedStore[rpcs[n].filename].state = "synced"
        /\ rpcs[k].pc = "done" /\ rpcs[k].failure = "publish" /\ Len(rpcs[k].files) = 2
        /\ HasPrefix(rpcs[k].resp.artifactURI, "file://")

RestoreURIs(n) ==
    LET m == migs[n]
        content == Mig_getCheckpointContent(m)
    IN [i \in DOMAIN pods[m.podName].containers |->
          Mig_getCheckpointPathForContainer(pccs[content.name].containerContents,
                                            pods[m.podName].containers[i].name)]

\* C31: the image of a restored container is derived from the artifact URI:
\* shared://<filename> gives /mnt/checkpoints/<filename>, file://<path> gives <path>;
\* with a URI of any other scheme the CheckpointComplete reconcile creates no pod and
\* marks the migration Failed
C31_ImageFromURI ==
    [][\A n \in DOMAIN migs :
         (/\ migs[n].phase = "CheckpointComplete"
          /\ Mig_Reconcile(n, NoFault)
          /\ Exists(pods, migs[n].podName)
          /\ Mig_getCheckpointContent(migs[n]).err = ""
          /\ \A i \in DOMAIN RestoreURIs(n) : RestoreURIs(n)[i] # "")
         => LET uris == RestoreURIs(n)
                name == RestoredPodName(migs[n].podName)
            IN IF \E i \in DOMAIN uris : /\ ~HasPrefix(uris[i], "shared://")
                                         /\ ~HasPrefix(uris[i], "file://")
               THEN pods' = pods /\ migs'[n].phase = "Failed"
               ELSE /\ Exists(pods', name)
                    /\ ~Exists(pods, name)
                       => \A i \in DOMAIN uris :
                            /\ HasPrefix(uris[i], "shared://")
                               => pods'[name].containers[i].image
                                    = "/mnt/checkpoints/"
                                      \o SubSeq(uris[i], Len("shared://") + 1, Len(uris[i]))
                            /\ HasPrefix(uris[i], "file://")
                               => pods'[name].containers[i].image
                                    = SubSeq(uris[i], Len("file://") + 1, Len(uris[i]))]_vars

\* a restored pod with one image from a file:// URI and one from a shared:// URI
C31_Witness ==
    \E n \in DOMAIN migs :
        /\ migs[n].phase = "Restoring"
        /\ Exists(pods, RestoredPodName(migs[n].podName))
        /\ LET r == pods[RestoredPodName(migs[n].podName)]
           IN /\ r.owner = Owner("PodMigration", n)
              /\ \E i \in DOMAIN r.containers :
                    r.containers[i].image = "/var/lib/kubelet/checkpoints/c1.tar"
              /\ \E i \in DOMAIN r.containers :
                    HasPrefix(r.containers[i].image, "/mnt/checkpoints/p1-")

\* C32: the restored pod a migration creates is named <source>-restored, which is not
\* the source pod's name, has nodeName = spec.targetNode, restartPolicy Never,
\* imagePullPolicy Never on every container, the containers of the source pod in the
\* same order, and the migration as its owner
C32_RestoredPodShape ==
    [][\A n \in DOMAIN migs :
         LET name == RestoredPodName(migs[n].podName) IN
         (/\ migs[n].phase = "CheckpointComplete"
          /\ Mig_Reconcile(n, NoFault)
          /\ ~Exists(pods, name) /\ Exists(pods', name))
         => /\ name = migs[n].podName \o "-restored"
            /\ name # migs[n].podName
            /\ migs'[n].restoredPodName = name
            /\ pods'[name].nodeName = migs[n].targetNode
            /\ pods'[name].restartPolicy = "Never"
            /\ pods'[name].owner = Owner("PodMigration", n)
            /\ DOMAIN pods'[name].containers = DOMAIN pods[migs[n].podName].containers
            /\ \A i \in DOMAIN pods'[name].containers :
                  /\ pods'[name].containers[i].name = pods[migs[n].podName].containers[i].name
                  /\ pods'[name].containers[i].imagePullPolicy = "Never"]_vars

\* restored pods exist for a named target node and for an empty one
C32_Witness ==
    \E n \in DOMAIN migs :
        /\ migs[n].phase = "Restoring"
        /\ migs[n].targetNode = ""
        /\ Exists(pods, RestoredPodName(migs[n].podName))
        /\ pods[RestoredPodName(migs[n].podName)].nodeName = ""
        /\ pods[RestoredPodName(migs[n].podName)].owner = Owner("PodMigration", n)
        /\ Len(pods[RestoredPodName(migs[n].podName)].containers) = NumContainers


\* C33: a CheckpointComplete reconcile that finds the restored pod already
\* there (and can build the pod) tolerates the AlreadyExists: it does not fail
\* the migration, leaves the pods as they are, and moves to Restoring with
\* restoredPodName set.
C33_AlreadyExistsTolerated ==
    [][\A n \in DOMAIN migs :
         LET name == RestoredPodName(migs[n].podName) IN
         (/\ migs[n].phase = "CheckpointComplete"
          /\ Exists(pods, name)
          /\ Mig_createRestoredPod(n, migs[n]).err = ""
          /\ Mig_Reconcile(n, NoFault))
         => /\ migs'[n].phase = "Restoring"
            /\ migs'[n].restoredPodName = name
            /\ pods' = pods]_vars

\* a migration went on to Restoring over a pod it did not create
C33_Witness ==
    \E n \in DOMAIN migs :
        /\ migs[n].phase = "Restoring"
        /\ migs[n].restoredPodName = RestoredPodName(migs[n].podName)
        /\ Exists(pods, migs[n].restoredPodName)
        /\ pods[migs[n].restoredPodName].owner # Owner("PodMigration", n)


\* C34: while the restored pod exists and reports neither Running nor Failed,
\* a Restoring reconcile, with or without an API error, writes nothing: the
\* migration keeps its status (phase Restoring included) and no pod changes,
\* whatever the number of such reconciles.
C34_WaitsWhilePodPending ==
    [][\A n \in DOMAIN migs : \A f \in MigFaults :
         (/\ migs[n].phase = "Restoring"
          /\ Exists(pods, migs[n].restoredPodName)
          /\ pods[migs[n].restoredPodName].phase \notin {"Running", "Failed"}
          /\ Mig_Reconcile(n, f))
         => /\ migs' = migs
            /\ pods' = pods]_vars

\* a migration waiting on its restored pod, which has not started yet
C34_Witness ==
    \E n \in DOMAIN migs :
        /\ migs[n].phase = "Restoring"
        /\ Exists(pods, migs[n].restoredPodName)
        /\ pods[migs[n].restoredPodName].phase \notin {"Running", "Failed"}
        /\ ENABLED Mig_Reconcile(n, NoFault)


\* C35: a ContainerCheckpoint whose phase is empty, Pending or Running has no
\* boundContentName and is not ready; boundContentName is written only by the
\* update that also writes Succeeded; and the Running handler is never entered
\* with a boundContentName, so its already-bound shortcut is never taken.
C35_BoundOnlyWithSucceeded ==
    /\ [](\A n \in DOMAIN ccs :
            ccs[n].phase \in {"", "Pending", "Running"}
            => ccs[n].boundContentName = "" /\ ~ccs[n].ready)
    /\ [][\A n \in DOMAIN ccs :
            (n \in DOMAIN ccs' /\ ccs'[n].boundContentName # ccs[n].boundContentName)
            => ccs[n].boundContentName = "" /\ ccs'[n].phase = "Succeeded"]_vars
    /\ [][\A n \in DOMAIN ccs : \A r \in AgentResults, f \in CCFaults :
            (EffPhase(ccs[n].phase) = "Running" /\ CC_Reconcile(n, r, f))
            => ccs[n].boundContentName = ""]_vars

\* the agent was called and the content created, the status update failed: the
\* checkpoint is still Running and still unbound
C35_Witness ==
    \E n \in DOMAIN ccs :
        /\ ccs[n].phase = "Running"
        /\ Exists(cccs, ContainerContentName(n))
        /\ Calls(n) > 0
        /\ ccs[n].boundContentName = ""


\* C36: every Succeeded ContainerCheckpoint is bound to a content that names the
\* checkpoint, its pod and its container, and whose artifactURI was returned
\* by an agent call made for that checkpoint, also when a content of that name
\* was there before the checkpoint.
C36_BoundToOwnContent ==
    \A n \in DOMAIN ccs :
        ccs[n].phase = "Succeeded"
        => LET k == ccs[n].boundContentName IN
           /\ Exists(cccs, k)
           /\ cccs[k].refName = n
           /\ cccs[k].podName = ccs[n].podName
           /\ cccs[k].containerName = ccs[n].containerName
           /\ \E i \in 1..Calls(n) :
                 cccs[k].artifactURI = ArtifactURI(ccs[n].podName, ccs[n].containerName, i)


\* C37: once a migration is in Checkpointing or a later phase of the happy path,
\* the PodCheckpoint named by status.podCheckpointRef has the migration's
\* spec.podName and is owned by the migration, also when a PodCheckpoint with
\* the migration's name was there before the migration.
C37_CheckpointIsTheMigrationsOwn ==
    \A n \in DOMAIN migs :
        migs[n].phase \in {"Checkpointing", "CheckpointComplete", "Restoring", "Succeeded"}
        => LET ref == migs[n].podCheckpointRef IN
           /\ Exists(pcs, ref)
           /\ pcs[ref].podName = migs[n].podName
           /\ pcs[ref].owner = Owner("PodMigration", n)


\* C38: the pod a migration waits on in Restoring, and on whose Running it goes
\* to Succeeded and deletes the source pod, was created by that migration, with
\* the images of that migration's own checkpoint, also when a pod named
\* <source>-restored was there before or a second migration has the same
\* source pod.
C38_WaitsOnItsOwnPod ==
    \A n \in DOMAIN migs :
        (/\ migs[n].phase \in {"Restoring", "Succeeded"}
         /\ Exists(pods, migs[n].restoredPodName))
        => LET r == pods[migs[n].restoredPodName] IN
           /\ r.owner = Owner("PodMigration", n)
           /\ \A i \in DOMAIN r.containers :
                 \E k \in BoundContents(n) :
                     /\ Exists(cccs, k)
                     /\ cccs[k].containerName = r.containers[i].name
                     /\ r.containers[i].image = CheckpointFilePath(cccs[k].artifactURI)


\* C39: two successful Checkpoint calls never publish to the same path of the
\* shared store, so that no two contents name the same archive, and an archive
\* named by an existing ContainerCheckpointContent is never truncated or
\* rewritten by a later or concurrent call, also for the same pod UID and
\* container within one second of the timestamp.
C39_ArchivesAreNeverShared ==
    /\ [](\A a, b \in DOMAIN rpcs :
            (/\ a # b
             /\ rpcs[a].pc = "done" /\ rpcs[a].resp.success
             /\ rpcs[b].pc = "done" /\ rpcs[b].resp.success)
            => rpcs[a].resp.artifactURI # rpcs[b].resp.artifactURI)
    /\ [](\A j, k \in DOMAIN cccs :
            (j # k /\ HasPrefix(cccs[j].artifactURI, "shared://"))
            => cccs[j].artifactURI # cccs[k].artifactURI)
    /\ [][\A k \in DOMAIN cccs :
            (/\ HasPrefix(cccs[k].artifactURI, "shared://")
             /\ Exists(sharedStore, SharedFile(cccs[k].artifactURI)))
            => sharedStore'[SharedFile(cccs[k].artifactURI)]
                  = sharedStore[SharedFile(cccs[k].artifactURI)]]_vars


\* C40: a migration in Checkpointing, CheckpointComplete, Restoring or Succeeded
\* has status.podCheckpointRef set; in Restoring or Succeeded it has
\* restoredPodName = <spec.podName>-restored; so no Restoring reconcile starts
\* without a restored pod name, and no migration carries the message of that
\* failure.
C40_RefsSetOnTheHappyPath ==
    /\ [](\A n \in DOMAIN migs :
            /\ migs[n].phase \in {"Checkpointing", "CheckpointComplete", "Restoring", "Succeeded"}
               => migs[n].podCheckpointRef # ""
            /\ migs[n].phase \in {"Restoring", "Succeeded"}
               => migs[n].restoredPodName = migs[n].podName \o "-restored"
            /\ migs[n].message # "no restored pod name in status")
    /\ [][\A n \in DOMAIN migs : \A f \in MigFaults :
            (migs[n].phase = "Restoring" /\ Mig_Reconcile(n, f))
            => migs[n].restoredPodName # ""]_vars

\* a migration that went through every phase, with a failed update on the way
C40_Witness ==
    \E n \in DOMAIN migs :
        /\ migs[n].phase = "Succeeded"
        /\ migs[n].podCheckpointRef = PodCheckpointName(n)
        /\ migs[n].restoredPodName = RestoredPodName(migs[n].podName)
        /\ faults > 0

====
